---------------------------- MODULE Spec2Model ----------------------------
(***************************************************************************)
(* A model of the layered cache simulator of cachelib:                     *)
(*   replacement_policies.rs  NoPolicy, RoundRobin, LeastRecentlyUsed,     *)
(*                            LeastFrequentlyUsed                          *)
(*   cache.rs                 Cache<R>: masks, tag array, lookup           *)
(*   simulator.rs             Simulator: new, simulate, read, the parsers  *)
(*   build.rs                 the generated HEX_LOOKUP table               *)
(*                                                                         *)
(* A u64 that holds an address, a tag or a mask is the tuple of its four   *)
(* 16-bit limbs, least significant first, so every mask, shift, sum and    *)
(* comparison is done at the full 64-bit width, wrap-around included.      *)
(* Counters (hits, misses, the LRU clock, LFU usages, round-robin indices) *)
(* stay far below 2^64 within the bounds and are naturals.                 *)
(*                                                                         *)
(* Arithmetic overflow is build dependent in Rust: a build with            *)
(* debug assertions panics, a release build wraps.  debug_assertions       *)
(* is chosen in Init and never changes.                                    *)
(*                                                                         *)
(* Simulator.simulation_time is wall-clock time; it is not modelled.       *)
(***************************************************************************)
EXTENDS Integers, Sequences, FiniteSets, TLC

VARIABLES
    config,                  \* LayeredCacheConfig.caches, read-only after Init
    debug_assertions,        \* the build: TRUE = overflow checks on
    caches,                  \* Simulator.caches
    result,                  \* Simulator.result
    pc,                      \* position of the simulate call
    bytes,                   \* simulate's argument
    i,                       \* simulate's byte offset i
    address,                 \* read's argument address (u64)
    size,                    \* read's argument size (u16)
    current_aligned_address, \* read's local (u64)
    level,                   \* position of read's for loop (index in IterOrder)
    history,                 \* ghost: every read_and_update_line call so far
    last,                    \* ghost: the last call, with the cache before and after
    consumed,                \* ghost: the buffers of all simulate calls, concatenated
    calls,                   \* ghost: simulate calls made
    returned                 \* ghost: simulate calls returned

vars == <<config, debug_assertions, caches, result, pc, bytes, i, address, size,
          current_aligned_address, level, history, last, consumed, calls, returned>>

-----------------------------------------------------------------------------
(* Bounds of the model.                                                    *)

\* records over all simulate calls of one Simulator
MaxRecords == 3
\* simulate calls on one Simulator
MaxCalls == 2
\* sub-accesses of one record (a release build that wraps at 2^64 never ends)
MaxSubAccesses == 3

-----------------------------------------------------------------------------
(* u64 as four 16-bit limbs, least significant first.                     *)

BITS == 64

Pow2(n) == 2 ^ n

U64Zero == <<0, 0, 0, 0>>
U64One == <<1, 0, 0, 0>>
U64Max == <<65535, 65535, 65535, 65535>>

\* the u64 of a natural below 2^31
U64(n) == <<n % 65536, n \div 65536, 0, 0>>

\* the 16-bit limb k of x, and zero beyond the ends
Limb(x, k) == IF k \in 0 .. 3 THEN x[k + 1] ELSE 0

\* the 4-bit digit k of x
Nibble(x, k) == (Limb(x, k \div 4) \div Pow2(4 * (k % 4))) % 16

\* `as usize` of a u64 below 2^31
AsNat(x) == x[1] + 65536 * x[2]

\* the bitwise and of two 16-bit limbs
RECURSIVE AndBits(_, _)
AndBits(a, b) ==
    IF a = 0 \/ b = 0 THEN 0
    ELSE IF b = 65535 THEN a
    ELSE IF a = 65535 THEN b
    ELSE ((a % 2) * (b % 2)) + 2 * AndBits(a \div 2, b \div 2)

BitAnd(x, y) ==
    <<AndBits(x[1], y[1]), AndBits(x[2], y[2]), AndBits(x[3], y[3]), AndBits(x[4], y[4])>>
OrBits(a, b) == a + b - AndBits(a, b)
BitOr(x, y) ==
    <<OrBits(x[1], y[1]), OrBits(x[2], y[2]), OrBits(x[3], y[3]), OrBits(x[4], y[4])>>
BitNot(x) == <<65535 - x[1], 65535 - x[2], 65535 - x[3], 65535 - x[4]>>

\* x << n and x >> n for n < 64
Shl(x, n) ==
    LET q == n \div 16
        r == n % 16
        l(k) == ((Limb(x, k - q) % Pow2(16 - r)) * Pow2(r))
                + (Limb(x, k - 1 - q) \div Pow2(16 - r))
    IN  <<l(0), l(1), l(2), l(3)>>
Shr(x, n) ==
    LET q == n \div 16
        r == n % 16
        l(k) == (Limb(x, k + q) \div Pow2(r))
                + ((Limb(x, k + 1 + q) % Pow2(r)) * Pow2(16 - r))
    IN  <<l(0), l(1), l(2), l(3)>>

\* x < y, compared limb by limb from the most significant
Lt(x, y) ==
    IF x[4] # y[4] THEN x[4] < y[4]
    ELSE IF x[3] # y[3] THEN x[3] < y[3]
    ELSE IF x[2] # y[2] THEN x[2] < y[2]
    ELSE x[1] < y[1]

\* x + y: the wrapped sum, and carry = 1 when the sum overflowed 64 bits
Add(x, y) ==
    LET s0 == x[1] + y[1]
        s1 == x[2] + y[2] + (s0 \div 65536)
        s2 == x[3] + y[3] + (s1 \div 65536)
        s3 == x[4] + y[4] + (s2 \div 65536)
    IN  [sum |-> <<s0 % 65536, s1 % 65536, s2 % 65536, s3 % 65536>>,
         carry |-> s3 \div 65536]

\* x - y, wrapping
Sub(x, y) == Add(x, Add(BitNot(y), U64One).sum).sum

RECURSIVE TrailingZeros(_)
TrailingZeros(n) ==
    IF n = 0 THEN BITS
    ELSE IF n % 2 = 1 THEN 0 ELSE 1 + TrailingZeros(n \div 2)

-----------------------------------------------------------------------------
(* replacement_policies.rs.  One record shape for the four policies; the   *)
(* fields a policy does not have are empty.  Vec index x is Seq index x+1. *)

Policy(kind, set_indices, last_used_times, time, usages) ==
    [kind |-> kind, set_indices |-> set_indices,
     last_used_times |-> last_used_times, time |-> time, usages |-> usages]

Zeros(n) == [k \in 1 .. n |-> 0]

NoPolicyDefault == Policy("NoPolicy", <<>>, <<>>, 0, <<>>)

RoundRobinNew(num_sets) == Policy("RoundRobin", Zeros(num_sets), <<>>, 0, <<>>)

LeastRecentlyUsedNew(num_lines) ==
    Policy("LeastRecentlyUsed", <<>>, Zeros(num_lines), 0, <<>>)

LeastFrequentlyUsedNew(num_lines) ==
    Policy("LeastFrequentlyUsed", <<>>, <<>>, 0, Zeros(num_lines))

\* an update_on_read that records a hit as the oldest use
UpdateOnReadAsOldest(p, cache_index) ==
    CASE p.kind = "LeastRecentlyUsed" ->
            [p EXCEPT !.last_used_times[cache_index + 1] = 0,
                      !.time = p.time + 1]
      [] p.kind = "LeastFrequentlyUsed" ->
            [p EXCEPT !.usages[cache_index + 1] = p.usages[cache_index + 1] + 1]
      [] OTHER -> p

\* update_on_read(cache_index)
UpdateOnRead(p, cache_index) ==
    CASE p.kind = "LeastRecentlyUsed" ->
            [p EXCEPT !.last_used_times[cache_index + 1] = p.time,
                      !.time = p.time + 1]
      [] p.kind = "LeastFrequentlyUsed" ->
            [p EXCEPT !.usages[cache_index + 1] = p.usages[cache_index + 1] + 1]
      [] OTHER -> p

\* a scan that also replaces the minimum by an equal entry
RECURSIVE MinScanKeepsLast(_, _, _, _, _)
MinScanKeepsLast(arr, index, upper, min_value, min_index) ==
    IF index < upper
    THEN IF ~Lt(min_value, U64(arr[index + 1]))
         THEN MinScanKeepsLast(arr, index + 1, upper, U64(arr[index + 1]), index)
         ELSE MinScanKeepsLast(arr, index + 1, upper, min_value, min_index)
    ELSE min_index

\* The scan of LeastRecentlyUsed::get_new_line and
\* LeastFrequentlyUsed::get_new_line: min_value starts at u64::MAX and
\* min_index at usize::MAX (here -1); an entry replaces the minimum only when
\* strictly smaller.
RECURSIVE MinScan(_, _, _, _, _)
MinScan(arr, index, upper, min_value, min_index) ==
    IF index < upper
    THEN IF Lt(U64(arr[index + 1]), min_value)
         THEN MinScan(arr, index + 1, upper, U64(arr[index + 1]), index)
         ELSE MinScan(arr, index + 1, upper, min_value, min_index)
    ELSE min_index

\* a round robin that leaves out the first line of the set
RoundRobinGetNewLineWithoutBase(p, set_lower_bound_index, set, cache_lines_per_set) ==
    LET set_index == p.set_indices[set + 1]
    IN  [line |-> set_index,
         policy |-> [p EXCEPT !.set_indices[set + 1] =
                                  (set_index + 1) % cache_lines_per_set]]

\* a round robin that advances before it takes the line
RoundRobinGetNewLineAfterAdvance(p, set_lower_bound_index, set, cache_lines_per_set) ==
    LET set_index == p.set_indices[set + 1] + 1
    IN  [line |-> set_lower_bound_index + set_index,
         policy |-> [p EXCEPT !.set_indices[set + 1] = set_index % cache_lines_per_set]]

\* a round robin whose index is not reduced modulo the number of ways
RoundRobinGetNewLineUnwrapped(p, set_lower_bound_index, set, cache_lines_per_set) ==
    LET set_index == p.set_indices[set + 1]
    IN  [line |-> set_lower_bound_index + (set_index % cache_lines_per_set),
         policy |-> [p EXCEPT !.set_indices[set + 1] = set_index + 1]]

\* a round robin that never advances its index
RoundRobinGetNewLineStuck(p, set_lower_bound_index, set, cache_lines_per_set) ==
    LET set_index == p.set_indices[set + 1]
    IN  [line |-> set_lower_bound_index + set_index, policy |-> p]

RoundRobinGetNewLine(p, set_lower_bound_index, set, cache_lines_per_set) ==
    LET set_index == p.set_indices[set + 1]
    IN  [line |-> set_lower_bound_index + set_index,
         policy |-> [p EXCEPT !.set_indices[set + 1] =
                                  (set_index + 1) % cache_lines_per_set]]

\* an LRU whose clock stands still on a miss
LeastRecentlyUsedGetNewLineNoTick(p, set_lower_bound_index, set, cache_lines_per_set) ==
    LET min_index == MinScan(p.last_used_times, set_lower_bound_index,
                             set_lower_bound_index + cache_lines_per_set,
                             U64Max, -1)
    IN  [line |-> min_index,
         policy |-> [p EXCEPT !.last_used_times[min_index + 1] = p.time]]

LeastRecentlyUsedGetNewLine(p, set_lower_bound_index, set, cache_lines_per_set) ==
    LET min_index == MinScan(p.last_used_times, set_lower_bound_index,
                             set_lower_bound_index + cache_lines_per_set,
                             U64Max, -1)
    IN  [line |-> min_index,
         policy |-> [p EXCEPT !.last_used_times[min_index + 1] = p.time,
                              !.time = p.time + 1]]

\* an LFU that keeps the count of the line it evicts
LeastFrequentlyUsedGetNewLineKeepsCount(p, set_lower_bound_index, set, cache_lines_per_set) ==
    LET min_index == MinScan(p.usages, set_lower_bound_index,
                             set_lower_bound_index + cache_lines_per_set,
                             U64Max, -1)
    IN  [line |-> min_index,
         policy |-> [p EXCEPT !.usages[min_index + 1] = p.usages[min_index + 1] + 1]]

LeastFrequentlyUsedGetNewLine(p, set_lower_bound_index, set, cache_lines_per_set) ==
    LET min_index == MinScan(p.usages, set_lower_bound_index,
                             set_lower_bound_index + cache_lines_per_set,
                             U64Max, -1)
    IN  [line |-> min_index,
         policy |-> [p EXCEPT !.usages[min_index + 1] = 1]]

\* The older revision of get_new_line (src/src/replacement_policies.rs):
\* slice.iter_mut().enumerate().min_by(|(_, v1), (_, v2)| v1.cmp(v2)).
\* Iterator::min_by reduces from the first element and replaces the element
\* it holds only when the comparison with the next one is Greater.
RECURSIVE MinBy(_, _, _)
MinBy(slice, index, held) ==
    IF index < Len(slice)
    THEN IF Lt(U64(slice[index + 1]), U64(slice[held + 1]))
         THEN MinBy(slice, index + 1, index)
         ELSE MinBy(slice, index + 1, held)
    ELSE held

OlderLeastRecentlyUsedGetNewLine(p, set_lower_bound_index, set, cache_lines_per_set) ==
    LET slb == set_lower_bound_index
        slice == SubSeq(p.last_used_times, slb + 1, slb + cache_lines_per_set)
        index == MinBy(slice, 1, 0)
    IN  [line |-> slb + index,
         policy |-> [p EXCEPT !.last_used_times[slb + index + 1] = p.time,
                              !.time = p.time + 1]]

OlderLeastFrequentlyUsedGetNewLine(p, set_lower_bound_index, set, cache_lines_per_set) ==
    LET slb == set_lower_bound_index
        slice == SubSeq(p.usages, slb + 1, slb + cache_lines_per_set)
        index == MinBy(slice, 1, 0)
    IN  [line |-> slb + index,
         policy |-> [p EXCEPT !.usages[slb + index + 1] = 1]]

\* get_new_line(set_lower_bound_index, set, cache_lines_per_set): the line and
\* the policy after the call
GetNewLine(p, set_lower_bound_index, set, cache_lines_per_set) ==
    CASE p.kind = "NoPolicy" ->
            [line |-> set_lower_bound_index, policy |-> p]
      [] p.kind = "RoundRobin" ->
            RoundRobinGetNewLine(p, set_lower_bound_index, set, cache_lines_per_set)
      [] p.kind = "LeastRecentlyUsed" ->
            LeastRecentlyUsedGetNewLine(p, set_lower_bound_index, set, cache_lines_per_set)
      [] p.kind = "LeastFrequentlyUsed" ->
            LeastFrequentlyUsedGetNewLine(p, set_lower_bound_index, set, cache_lines_per_set)

-----------------------------------------------------------------------------
(* cache.rs                                                                *)

\* 1 << n on a u64 in a release build, which shifts by n mod 64.  In a build
\* with overflow checks a shift by 64 panics: CacheNewPanics below.
ShlOne(n) == Shl(U64One, n % BITS)

\* a construction whose tag mask starts one bit above the set bits
CacheNewNarrowTag(cache_size, line_size, num_sets, policy) ==
    LET cache_alignment_bits == TrailingZeros(line_size)
        set_selection_bits == TrailingZeros(num_sets)
        cache_lines == cache_size \div line_size
    IN  [set_size |-> cache_lines \div num_sets,
         set_selection_bit_mask |-> Shl(U64(num_sets - 1), cache_alignment_bits),
         tag_selection_bit_mask |->
             Shl(Sub(ShlOne(BITS - set_selection_bits - cache_alignment_bits), U64One),
                 cache_alignment_bits + set_selection_bits + 1),
         cache_alignment_bit_mask |-> BitNot(Sub(ShlOne(cache_alignment_bits), U64One)),
         line_size |-> line_size,
         cache_alignment_bits |-> cache_alignment_bits,
         cache |-> [k \in 1 .. cache_lines |-> U64Zero],
         replacement_policy |-> policy]

\* Cache::new(size, line_size, num_sets, policy)
CacheNew(cache_size, line_size, num_sets, policy) ==
    LET cache_alignment_bits == TrailingZeros(line_size)
        set_selection_bits == TrailingZeros(num_sets)
        cache_lines == cache_size \div line_size
    IN  [set_size |-> cache_lines \div num_sets,
         set_selection_bit_mask |-> Shl(U64(num_sets - 1), cache_alignment_bits),
         tag_selection_bit_mask |->
             Shl(Sub(ShlOne(BITS - set_selection_bits - cache_alignment_bits), U64One),
                 cache_alignment_bits + set_selection_bits),
         cache_alignment_bit_mask |-> BitNot(Sub(ShlOne(cache_alignment_bits), U64One)),
         line_size |-> line_size,
         cache_alignment_bits |-> cache_alignment_bits,
         cache |-> [k \in 1 .. cache_lines |-> U64Zero],
         replacement_policy |-> policy]

\* a split that shifts the tag down to bit 0
AddressToSetAndTagShifted(c, input) ==
    [set |-> AsNat(Shr(BitAnd(input, c.set_selection_bit_mask), c.cache_alignment_bits)),
     tag |-> Shr(BitAnd(input, c.tag_selection_bit_mask),
                 c.cache_alignment_bits + TrailingZeros(Len(c.cache) \div c.set_size))]

\* address_to_set_and_tag(input)
AddressToSetAndTag(c, input) ==
    [set |-> AsNat(Shr(BitAnd(input, c.set_selection_bit_mask), c.cache_alignment_bits)),
     tag |-> BitAnd(input, c.tag_selection_bit_mask)]

\* a scan that looks at the first way of the set only
ScanSetFirstWayOnly(cache, x, upper, tag) ==
    IF x < upper /\ cache[x + 1] = tag THEN x ELSE -1

\* the while loop of read_and_update_line: the first x in lower..upper-1 whose
\* cell equals tag, or -1
RECURSIVE ScanSet(_, _, _, _)
ScanSet(cache, x, upper, tag) ==
    IF x < upper
    THEN IF cache[x + 1] = tag THEN x ELSE ScanSet(cache, x + 1, upper, tag)
    ELSE -1

\* a lookup that reports the miss but installs nothing
ReadAndUpdateLineNoInstall(c, input) ==
    LET st == AddressToSetAndTag(c, input)
        set_inclusive_lower_bound == st.set * c.set_size
        set_exclusive_upper_bound == set_inclusive_lower_bound + c.set_size
        x == ScanSet(c.cache, set_inclusive_lower_bound, set_exclusive_upper_bound, st.tag)
        new == GetNewLine(c.replacement_policy, set_inclusive_lower_bound, st.set, c.set_size)
    IN  IF x >= 0
        THEN [hit |-> TRUE, line |-> x,
              cache |-> [c EXCEPT !.replacement_policy =
                                      UpdateOnRead(c.replacement_policy, x)]]
        ELSE [hit |-> FALSE, line |-> new.line,
              cache |-> [c EXCEPT !.replacement_policy = new.policy]]

\* a lookup that does not tell the policy of a hit
ReadAndUpdateLineNoUpdate(c, input) ==
    LET st == AddressToSetAndTag(c, input)
        set_inclusive_lower_bound == st.set * c.set_size
        set_exclusive_upper_bound == set_inclusive_lower_bound + c.set_size
        x == ScanSet(c.cache, set_inclusive_lower_bound, set_exclusive_upper_bound, st.tag)
        new == GetNewLine(c.replacement_policy, set_inclusive_lower_bound, st.set, c.set_size)
    IN  IF x >= 0
        THEN [hit |-> TRUE, line |-> x, cache |-> c]
        ELSE [hit |-> FALSE, line |-> new.line,
              cache |-> [c EXCEPT !.replacement_policy = new.policy,
                                  !.cache[new.line + 1] = st.tag]]

\* read_and_update_line(input): hit or miss, the line given to update_on_read
\* or returned by get_new_line, and the cache after the call
ReadAndUpdateLine(c, input) ==
    LET st == AddressToSetAndTag(c, input)
        set_inclusive_lower_bound == st.set * c.set_size
        set_exclusive_upper_bound == set_inclusive_lower_bound + c.set_size
        x == ScanSet(c.cache, set_inclusive_lower_bound, set_exclusive_upper_bound, st.tag)
        new == GetNewLine(c.replacement_policy, set_inclusive_lower_bound, st.set, c.set_size)
    IN  IF x >= 0
        THEN [hit |-> TRUE, line |-> x,
              cache |-> [c EXCEPT !.replacement_policy =
                                      UpdateOnRead(c.replacement_policy, x)]]
        ELSE [hit |-> FALSE, line |-> new.line,
              cache |-> [c EXCEPT !.replacement_policy = new.policy,
                                  !.cache[new.line + 1] = st.tag]]

GetAlignmentBitMask(c) == c.cache_alignment_bit_mask

GetLineSize(c) == c.line_size

GetUninitialisedLineCount(c) == Cardinality({k \in 1 .. Len(c.cache) : c.cache[k] = U64Zero})

-----------------------------------------------------------------------------
(* build.rs: the lookup table HEX_LOOKUP[left][right].                     *)

\* a digit map that leaves out the 10 of the upper-case digits
map_hex_char_upper_from_zero(input) ==
    IF input >= 48 /\ input <= 57 THEN input - 48
    ELSE IF input >= 65 /\ input <= 70 THEN input - 65
    ELSE IF input >= 97 /\ input <= 102 THEN input - 97 + 10
    ELSE 0

map_hex_char(input) ==
    IF input >= 48 /\ input <= 57 THEN input - 48
    ELSE IF input >= 65 /\ input <= 70 THEN input - 65 + 10
    ELSE IF input >= 97 /\ input <= 102 THEN input - 97 + 10
    ELSE 0

\* a table with the two digits of an entry the other way round
HEX_LOOKUP_swapped(left, right) ==
    IF left * 256 + right < 65535
    THEN ((map_hex_char(right) * 16) % 256) + map_hex_char(left)
    ELSE 0

\* The generating loop runs while input < u16::MAX, so the entry of the pair
\* (255, 255) keeps the initial 0.
HEX_LOOKUP(left, right) ==
    IF left * 256 + right < 65535
    THEN ((map_hex_char(left) * 16) % 256) + map_hex_char(right)
    ELSE 0

-----------------------------------------------------------------------------
(* simulator.rs: the record layout and the two parsers.  A byte is its     *)
(* value 0..255; buffer offset k is Seq index k+1.                         *)

LINE_SIZE == 40
ADDRESS_OFFSET == 17
ADDRESS_SIZE == 16
ADDRESS_UPPER == ADDRESS_OFFSET + ADDRESS_SIZE
RW_MODE == ADDRESS_UPPER + 1
SIZE == RW_MODE + 2

\* buf[from..to] of a Rust slice
Slice(buf, from, to) == SubSeq(buf, from + 1, to)

RECURSIVE ParseAddressFrom(_, _, _)
ParseAddressFrom(buf, x, res) ==
    IF x < 15
    THEN ParseAddressFrom(buf, x + 2,
                          BitOr(Shl(res, 8), U64(HEX_LOOKUP(buf[x + 1], buf[x + 2]))))
    ELSE res

\* parse_address(buf: &[u8; 16]) -> u64
parse_address(buf) == ParseAddressFrom(buf, 0, U64Zero)

\* parse_size(buf: &[u8; 3]) -> u16, as a build without overflow checks
\* computes it: the u8 differences and the u16 sums wrap.
parse_size(buf) ==
    LET d2 == (buf[3] - 48) % 256
        d1 == (buf[2] - 48) % 256
        d0 == (buf[1] - 48) % 256
    IN  (((d2 + 10 * d1) % 65536) + 100 * d0) % 65536

\* The standard library's decoders that the debug_assert_eq of the two
\* parsers call.  char::to_digit: the value of a digit, or -1.
to_digit(c, radix) ==
    LET v == IF c >= 48 /\ c <= 57 THEN c - 48
             ELSE IF c >= 97 /\ c <= 122 THEN c - 97 + 10
             ELSE IF c >= 65 /\ c <= 90 THEN c - 65 + 10
             ELSE radix
    IN  IF v < radix THEN v ELSE -1

\* the u64 that result = result * 16 + digit leaves after the digits
\* buf[from .. Len(buf)], at most 16, most significant first
FromStrRadix16(buf, from) ==
    LET d(j) == IF Len(buf) - j >= from THEN to_digit(buf[Len(buf) - j], 16) ELSE 0
        l(k) == d(4 * k) + 16 * d(4 * k + 1) + 256 * d(4 * k + 2) + 4096 * d(4 * k + 3)
    IN  IF \E x \in from .. Len(buf) : to_digit(buf[x], 16) = -1
        THEN [ok |-> FALSE, value |-> U64Zero]
        ELSE [ok |-> TRUE, value |-> <<l(0), l(1), l(2), l(3)>>]

\* u64::from_str_radix(text, 16) on the 16 bytes of an address field: an
\* optional + sign, then digits, most significant first; 16 digits cannot
\* overflow.  Text that is no UTF-8 has a byte that is no digit.
from_str_radix(buf) == FromStrRadix16(buf, IF buf[1] = 43 THEN 2 ELSE 1)

RECURSIVE ParseDecimal(_, _, _)
ParseDecimal(buf, x, res) ==
    IF x > Len(buf) THEN [ok |-> TRUE, value |-> res]
    ELSE IF to_digit(buf[x], 10) = -1 THEN [ok |-> FALSE, value |-> 0]
    ELSE ParseDecimal(buf, x + 1, 10 * res + to_digit(buf[x], 10))

\* text.parse::<u16>() on the 3 bytes of a size field; 3 digits cannot
\* overflow
parse_u16(buf) == ParseDecimal(buf, IF buf[1] = 43 THEN 2 ELSE 1, 0)

\* parse_address in a build with debug assertions: the unwrap of the
\* standard decode or the assert_eq on its value panics
parse_address_panics(buf) ==
    LET std == from_str_radix(buf)
    IN  ~std.ok \/ std.value # parse_address(buf)

\* parse_size in a build with overflow checks and debug assertions: a byte
\* below b'0' overflows the u8 subtraction; then the unwrap or the assert_eq
\* panics
parse_size_panics(buf) ==
    LET std == parse_u16(buf)
    IN  \/ \E k \in 1 .. 3 : buf[k] < 48
        \/ ~std.ok
        \/ std.value # parse_size(buf)

-----------------------------------------------------------------------------
(* simulator.rs: Simulator::new and config_to_cache.                       *)

CacheConfig(name, cache_size, line_size, kind, replacement_policy) ==
    [name |-> name, size |-> cache_size, line_size |-> line_size, kind |-> kind,
     replacement_policy |-> replacement_policy]

ConfigNumLines(cc) == cc.size \div cc.line_size

ConfigNumSets(cc) ==
    CASE cc.kind = "Direct" -> ConfigNumLines(cc)
      [] cc.kind = "Full" -> 1
      [] cc.kind = "TwoWay" -> ConfigNumLines(cc) \div 2
      [] cc.kind = "FourWay" -> ConfigNumLines(cc) \div 4
      [] cc.kind = "EightWay" -> ConfigNumLines(cc) \div 8

\* a construction that always takes the configured policy
ConfigToCacheAsConfigured(cc) ==
    LET num_lines == ConfigNumLines(cc)
        num_sets == ConfigNumSets(cc)
    IN  CASE cc.replacement_policy = "RoundRobin" ->
                CacheNew(cc.size, cc.line_size, num_sets, RoundRobinNew(num_sets))
          [] cc.replacement_policy = "LeastRecentlyUsed" ->
                CacheNew(cc.size, cc.line_size, num_sets, LeastRecentlyUsedNew(num_lines))
          [] cc.replacement_policy = "LeastFrequentlyUsed" ->
                CacheNew(cc.size, cc.line_size, num_sets, LeastFrequentlyUsedNew(num_lines))

\* config_to_cache(config)
ConfigToCache(cc) ==
    LET num_lines == ConfigNumLines(cc)
        num_sets == ConfigNumSets(cc)
    IN  IF num_sets = num_lines
        THEN CacheNew(cc.size, cc.line_size, num_sets, NoPolicyDefault)
        ELSE CASE cc.replacement_policy = "RoundRobin" ->
                    CacheNew(cc.size, cc.line_size, num_sets, RoundRobinNew(num_sets))
              [] cc.replacement_policy = "LeastRecentlyUsed" ->
                    CacheNew(cc.size, cc.line_size, num_sets,
                             LeastRecentlyUsedNew(num_lines))
              [] cc.replacement_policy = "LeastFrequentlyUsed" ->
                    CacheNew(cc.size, cc.line_size, num_sets,
                             LeastFrequentlyUsedNew(num_lines))

\* a Simulator whose result entries are in the reverse order of the levels
SimulatorNewResultReversed(cfg) ==
    [caches |-> [k \in 1 .. Len(cfg) |-> ConfigToCache(cfg[k])],
     result |-> [main_memory_accesses |-> 0,
                 caches |-> [k \in 1 .. Len(cfg) |->
                                [name |-> cfg[Len(cfg) + 1 - k].name,
                                 hits |-> 0, misses |-> 0]]],
     pc |-> "idle", bytes |-> <<>>, i |-> 0, address |-> U64Zero, size |-> 0,
     current_aligned_address |-> U64Zero, level |-> 0]

\* The Simulator and the frame of its simulate call as one record: the fields
\* of Simulator (caches, result), then the position and the locals of
\* simulate and read.
SimulatorNew(cfg) ==
    [caches |-> [k \in 1 .. Len(cfg) |-> ConfigToCache(cfg[k])],
     result |-> [main_memory_accesses |-> 0,
                 caches |-> [k \in 1 .. Len(cfg) |->
                                [name |-> cfg[k].name, hits |-> 0, misses |-> 0]]],
     pc |-> "idle", bytes |-> <<>>, i |-> 0, address |-> U64Zero, size |-> 0,
     current_aligned_address |-> U64Zero, level |-> 0]

-----------------------------------------------------------------------------
(* simulator.rs: simulate and read, one step at a time.                    *)
(*   "idle"     no simulate call is running                                *)
(*   "loop"     at `while i < bytes.len()`                                 *)
(*   "for"      in read's for loop, before read_and_update_line            *)
(*   "panicked" the process has aborted                                    *)

\* an order that visits the deepest level first
IterOrderReversed(n) == [k \in 1 .. n |-> n + 1 - k]

\* the order in which `self.caches.iter_mut().zip(..)` visits n levels
IterOrder(n) == [k \in 1 .. n |-> k]

\* a simulate that zeroes main_memory_accesses and the counters before it
\* checks the length
SimulateEnterChecksLate(m, b) ==
    IF Len(b) % 40 # 0
    THEN [m EXCEPT !.pc = "panicked", !.bytes = b,
                   !.result.main_memory_accesses = 0,
                   !.result.caches = [k \in 1 .. Len(m.result.caches) |->
                                         [m.result.caches[k] EXCEPT !.hits = 0,
                                                                    !.misses = 0]]]
    ELSE [m EXCEPT !.pc = "loop", !.bytes = b, !.i = 0]

\* a simulate that starts every call from zeroed counters
SimulateEnterReset(m, b) ==
    IF Len(b) % 40 # 0
    THEN [m EXCEPT !.pc = "panicked", !.bytes = b]
    ELSE [m EXCEPT !.pc = "loop", !.bytes = b, !.i = 0,
                   !.result.caches = [k \in 1 .. Len(m.result.caches) |->
                                         [m.result.caches[k] EXCEPT !.hits = 0,
                                                                    !.misses = 0]]]

\* simulate(bytes), up to the loop: assert_eq!(bytes.len() % 40, 0); i = 0
SimulateEnter(m, b) ==
    IF Len(b) % 40 # 0
    THEN [m EXCEPT !.pc = "panicked", !.bytes = b]
    ELSE [m EXCEPT !.pc = "loop", !.bytes = b, !.i = 0]

\* a loop test that dispatches nothing for a record of size 0
WhileStepSkipsEmpty(m, debug) ==
    LET end == Add(m.address, U64(m.size))
    IN  IF end.carry = 1 /\ debug THEN [m EXCEPT !.pc = "panicked"]
        ELSE IF m.size > 0 /\ Lt(m.current_aligned_address, end.sum)
        THEN [m EXCEPT !.pc = "for", !.level = 1]
        ELSE [m EXCEPT !.pc = "loop", !.i = m.i + 40]

\* read's `while current_aligned_address < (address + size as u64)`: into the
\* for loop, or out of read and on to simulate's i += 40
WhileStep(m, debug) ==
    LET end == Add(m.address, U64(m.size))
    IN  IF end.carry = 1 /\ debug THEN [m EXCEPT !.pc = "panicked"]
        ELSE IF Lt(m.current_aligned_address, end.sum)
        THEN [m EXCEPT !.pc = "for", !.level = 1]
        ELSE [m EXCEPT !.pc = "loop", !.i = m.i + 40]

\* a pass that leaves out the records whose mode byte is W
LoopStepSkipsWrites(m, debug) ==
    LET buffer == Slice(m.bytes, m.i, m.i + 40)
        addr == parse_address(Slice(buffer, ADDRESS_OFFSET, ADDRESS_UPPER))
        sz == parse_size(Slice(buffer, SIZE, LINE_SIZE - 1))
        first_cache == m.caches[1]
        alignment_diff == BitAnd(addr, BitNot(GetAlignmentBitMask(first_cache)))
    IN  IF buffer[RW_MODE + 1] = 87
        THEN [m EXCEPT !.pc = "loop", !.i = m.i + 40]
        ELSE WhileStep([m EXCEPT !.address = addr, !.size = sz,
                                 !.current_aligned_address = Sub(addr, alignment_diff)],
                       debug)

\* a pass that takes what the parsers compute without their debug checks
LoopStepUnchecked(m, debug) ==
    LET buffer == Slice(m.bytes, m.i, m.i + 40)
        addr == parse_address(Slice(buffer, ADDRESS_OFFSET, ADDRESS_UPPER))
        sz == parse_size(Slice(buffer, SIZE, LINE_SIZE - 1))
        first_cache == m.caches[1]
        alignment_diff == BitAnd(addr, BitNot(GetAlignmentBitMask(first_cache)))
    IN  WhileStep([m EXCEPT !.address = addr, !.size = sz,
                            !.current_aligned_address = Sub(addr, alignment_diff)],
                  debug)

\* one pass of `while i < bytes.len()` up to read's first lookup: the record
\* is parsed, read(address, size) unwraps the first level, which panics when
\* there is none, aligns the address down and tests its loop
LoopStep(m, debug) ==
    LET buffer == Slice(m.bytes, m.i, m.i + 40)
        addr == parse_address(Slice(buffer, ADDRESS_OFFSET, ADDRESS_UPPER))
        sz == parse_size(Slice(buffer, SIZE, LINE_SIZE - 1))
        first_cache == m.caches[1]
        alignment_diff == BitAnd(addr, BitNot(GetAlignmentBitMask(first_cache)))
    IN  IF debug /\ (\/ parse_address_panics(Slice(buffer, ADDRESS_OFFSET, ADDRESS_UPPER))
                     \/ parse_size_panics(Slice(buffer, SIZE, LINE_SIZE - 1)))
        THEN [m EXCEPT !.pc = "panicked"]
        ELSE IF m.caches = <<>>
        THEN [m EXCEPT !.pc = "panicked", !.address = addr, !.size = sz]
        ELSE WhileStep([m EXCEPT !.address = addr, !.size = sz,
                                 !.current_aligned_address = Sub(addr, alignment_diff)],
                       debug)

\* an end of simulate that leaves main_memory_accesses as it was
SimulateReturnStale(m) == [m EXCEPT !.pc = "idle"]

\* the end of simulate: the main memory accesses are the last level's misses;
\* the unwrap of the last level panics when there is none
SimulateReturn(m) ==
    IF m.result.caches = <<>>
    THEN [m EXCEPT !.pc = "panicked"]
    ELSE [m EXCEPT !.pc = "idle",
                   !.result.main_memory_accesses =
                       m.result.caches[Len(m.result.caches)].misses]

\* a read that advances by the line size of the last level
AfterForDeepestLine(m, debug) ==
    LET next == Add(m.current_aligned_address, U64(GetLineSize(m.caches[Len(m.caches)])))
    IN  IF next.carry = 1 /\ debug THEN [m EXCEPT !.pc = "panicked"]
        ELSE WhileStep([m EXCEPT !.current_aligned_address = next.sum], debug)

\* after the for loop: current_aligned_address += lowest_line_size, and the
\* while loop is tested again
AfterFor(m, debug) ==
    LET next == Add(m.current_aligned_address, U64(GetLineSize(m.caches[1])))
    IN  IF next.carry = 1 /\ debug THEN [m EXCEPT !.pc = "panicked"]
        ELSE WhileStep([m EXCEPT !.current_aligned_address = next.sum], debug)

\* a for loop that a miss ends as well
ForStepStopsAtMiss(m, debug) ==
    LET n == Len(m.caches)
        k == IterOrder(n)[m.level]
        r == ReadAndUpdateLine(m.caches[k], m.current_aligned_address)
        looked == [m EXCEPT !.caches[k] = r.cache]
    IN  IF r.hit
        THEN AfterFor([looked EXCEPT !.result.caches[k].hits = @ + 1], debug)
        ELSE AfterFor([looked EXCEPT !.result.caches[k].misses = @ + 1], debug)

\* a for loop that on a hit also brings the line into the next level
ForStepFillsBelowOnHit(m, debug) ==
    LET n == Len(m.caches)
        k == IterOrder(n)[m.level]
        r == ReadAndUpdateLine(m.caches[k], m.current_aligned_address)
        looked == [m EXCEPT !.caches[k] = r.cache]
        below == IF m.level < n
                 THEN [looked EXCEPT !.caches[IterOrder(n)[m.level + 1]] =
                          ReadAndUpdateLine(@, m.current_aligned_address).cache]
                 ELSE looked
    IN  IF r.hit
        THEN AfterFor([below EXCEPT !.result.caches[k].hits = @ + 1], debug)
        ELSE IF m.level < n
        THEN [looked EXCEPT !.result.caches[k].misses = @ + 1, !.level = m.level + 1]
        ELSE AfterFor([looked EXCEPT !.result.caches[k].misses = @ + 1], debug)

\* a for loop that counts the miss before it tests the lookup
ForStepMissBeforeTest(m, debug) ==
    LET n == Len(m.caches)
        k == IterOrder(n)[m.level]
        r == ReadAndUpdateLine(m.caches[k], m.current_aligned_address)
        looked == [m EXCEPT !.caches[k] = r.cache, !.result.caches[k].misses = @ + 1]
    IN  IF r.hit
        THEN AfterFor([looked EXCEPT !.result.caches[k].hits = @ + 1], debug)
        ELSE IF m.level < n
        THEN [looked EXCEPT !.level = m.level + 1]
        ELSE AfterFor(looked, debug)

\* a for loop that does not count a hit
ForStepUncountedHit(m, debug) ==
    LET n == Len(m.caches)
        k == IterOrder(n)[m.level]
        r == ReadAndUpdateLine(m.caches[k], m.current_aligned_address)
        looked == [m EXCEPT !.caches[k] = r.cache]
    IN  IF r.hit
        THEN AfterFor(looked, debug)
        ELSE IF m.level < n
        THEN [looked EXCEPT !.result.caches[k].misses = @ + 1, !.level = m.level + 1]
        ELSE AfterFor([looked EXCEPT !.result.caches[k].misses = @ + 1], debug)

\* one pass of read's for loop: the lookup at one level and its counter; a
\* hit breaks out of the loop
ForStep(m, debug) ==
    LET n == Len(m.caches)
        k == IterOrder(n)[m.level]
        r == ReadAndUpdateLine(m.caches[k], m.current_aligned_address)
        looked == [m EXCEPT !.caches[k] = r.cache]
    IN  IF r.hit
        THEN AfterFor([looked EXCEPT !.result.caches[k].hits = @ + 1], debug)
        ELSE IF m.level < n
        THEN [looked EXCEPT !.result.caches[k].misses = @ + 1, !.level = m.level + 1]
        ELSE AfterFor([looked EXCEPT !.result.caches[k].misses = @ + 1], debug)

Step(m, debug) ==
    CASE m.pc = "loop" ->
            IF m.i < Len(m.bytes) THEN LoopStep(m, debug) ELSE SimulateReturn(m)
      [] m.pc = "for" -> ForStep(m, debug)

RECURSIVE Run(_, _)
Run(m, debug) == IF m.pc \in {"idle", "panicked"} THEN m ELSE Run(Step(m, debug), debug)

\* a whole simulate(bytes) call on the simulator m
SimulateCall(m, b, debug) == Run(SimulateEnter(m, b), debug)

-----------------------------------------------------------------------------
(* The inputs: trace records in the 40-byte format of the trace files, and *)
(* the configurations.                                                     *)

HexDigit(v) == IF v < 10 THEN 48 + v ELSE 87 + v

\* the 16 lower-case hex digits of a u64, most significant first
HexField(a) == [k \in 1 .. ADDRESS_SIZE |-> HexDigit(Nibble(a, ADDRESS_SIZE - k))]

\* the 3 decimal digits of a size below 1000
DecField(n) == <<48 + (n \div 100), 48 + ((n \div 10) % 10), 48 + (n % 10)>>

\* instruction pointer, space, address, space, R or W, space, size, newline
Record(a, n) ==
    HexField(U64Zero) \o <<32>> \o HexField(a) \o <<32, 82, 32>> \o DecField(n) \o <<10>>

RECURSIVE Flatten(_)
Flatten(records) ==
    IF records = <<>> THEN <<>> ELSE Head(records) \o Flatten(Tail(records))

\* the buffers of whole records: every sequence of at most n of the records
Buffers(records, n) ==
    {Flatten(t) : t \in UNION {[1 .. k -> records] : k \in 0 .. n}}

\* a buffer that ends inside its record
Ragged == SubSeq(Record(U64(18), 1), 1, LINE_SIZE - 1)

\* the last byte but two of the address space, in the last line of every level
TopAddress == BitNot(U64(2))

Records ==
    {Record(U64(18), 1),      \* 0x12, inside one line
     Record(U64(32), 1),      \* 0x20
     Record(U64(14), 4),      \* 0x0E..0x11, across a line boundary
     Record(TopAddress, 1)}   \* 0xFFFFFFFFFFFFFFFD

Configs ==
    {<<CacheConfig("L1", 16, 4, "TwoWay", "RoundRobin")>>,
     <<CacheConfig("L1", 16, 8, "Full", "LeastRecentlyUsed")>>,
     <<CacheConfig("L1", 8, 4, "Direct", "LeastFrequentlyUsed"),
       CacheConfig("L2", 16, 4, "TwoWay", "LeastRecentlyUsed")>>,
     <<CacheConfig("L1", 4, 4, "Full", "RoundRobin"),
       CacheConfig("L2", 16, 8, "Full", "LeastFrequentlyUsed")>>}

-----------------------------------------------------------------------------
(* The state machine.                                                      *)

M ==
    [caches |-> caches, result |-> result, pc |-> pc, bytes |-> bytes, i |-> i,
     address |-> address, size |-> size,
     current_aligned_address |-> current_aligned_address, level |-> level]

Becomes(n) ==
    \E v \in {n} :
        /\ caches' = v.caches
        /\ result' = v.result
        /\ pc' = v.pc
        /\ bytes' = v.bytes
        /\ i' = v.i
        /\ address' = v.address
        /\ size' = v.size
        /\ current_aligned_address' = v.current_aligned_address
        /\ level' = v.level

NoCall == [level |-> 0, input |-> U64Zero, hit |-> FALSE, line |-> 0, before |-> <<>>,
           after |-> <<>>]

\* Cache::new in a build with overflow checks: `1 << (u64::BITS - set bits -
\* alignment bits)` panics when a level has one set of 1-byte lines, a shift
\* of a u64 by 64
CacheNewPanics(cc) ==
    BITS - TrailingZeros(ConfigNumSets(cc)) - TrailingZeros(cc.line_size) >= BITS

\* the process after Simulator::new(config): the new Simulator, or none when
\* the construction of a level has panicked
InitWith(cfgs) ==
    /\ config \in cfgs
    /\ debug_assertions \in BOOLEAN
    /\ IF debug_assertions /\ \E k \in 1 .. Len(config) : CacheNewPanics(config[k])
       THEN /\ caches = <<>>
            /\ result = [main_memory_accesses |-> 0, caches |-> <<>>]
            /\ pc = "panicked"
       ELSE /\ caches = SimulatorNew(config).caches
            /\ result = SimulatorNew(config).result
            /\ pc = "idle"
    /\ bytes = <<>>
    /\ i = 0
    /\ address = U64Zero
    /\ size = 0
    /\ current_aligned_address = U64Zero
    /\ level = 0
    /\ history = <<>>
    /\ last = NoCall
    /\ consumed = <<>>
    /\ calls = 0
    /\ returned = 0

Init == InitWith(Configs)

\* the number, over all calls, of the record simulate is working on
CurrentRecord == ((Len(consumed) - Len(bytes) + i) \div LINE_SIZE) + 1

\* the sub-accesses dispatched so far for record rec
SubAccesses(rec) ==
    Cardinality({k \in 1 .. Len(history) : history[k].rec = rec /\ history[k].pos = 1})

Simulate(b) ==
    /\ pc = "idle"
    /\ Becomes(SimulateEnter(M, b))
    /\ consumed' = IF Len(b) % LINE_SIZE = 0 THEN consumed \o b ELSE consumed
    /\ calls' = calls + 1
    /\ UNCHANGED <<config, debug_assertions, history, last, returned>>

Loop ==
    /\ pc = "loop"
    /\ i < Len(bytes)
    /\ Becomes(LoopStep(M, debug_assertions))
    /\ UNCHANGED <<config, debug_assertions, history, last, consumed, calls, returned>>

Return ==
    /\ pc = "loop"
    /\ i >= Len(bytes)
    /\ Becomes(SimulateReturn(M))
    /\ returned' = IF SimulateReturn(M).pc = "idle" THEN returned + 1 ELSE returned
    /\ UNCHANGED <<config, debug_assertions, history, last, consumed, calls>>

For ==
    /\ pc = "for"
    /\ level = 1 => SubAccesses(CurrentRecord) < MaxSubAccesses
    /\ Becomes(ForStep(M, debug_assertions))
    /\ \E k \in {IterOrder(Len(caches))[level]} :
       \E r \in {ReadAndUpdateLine(caches[k], current_aligned_address)} :
           /\ history' = Append(history,
                  [rec |-> CurrentRecord, pos |-> level, level |-> k,
                   input |-> current_aligned_address, hit |-> r.hit, line |-> r.line])
           /\ last' = [level |-> k, input |-> current_aligned_address, hit |-> r.hit,
                       line |-> r.line, before |-> caches[k], after |-> caches'[k]]
    /\ UNCHANGED <<config, debug_assertions, consumed, calls, returned>>

\* the records simulate may still be given
Budget == MaxRecords - (Len(consumed) \div LINE_SIZE)

\* the buffers a caller may pass to simulate now: whole records within the
\* budget, or a buffer that ends inside a record
Inputs(records) ==
    IF pc = "idle" /\ calls < MaxCalls
    THEN Buffers(records, Budget) \cup {Ragged}
    ELSE {}

Next ==
    \/ \E b \in Inputs(Records) : Simulate(b)
    \/ Loop
    \/ Return
    \/ For

Spec == InitWith(Configs) /\ [][Next]_vars

\* the configurations with a level that has one line in every set, under
\* each of the three policies
OneLineConfigs ==
    {<<CacheConfig("L1", 16, 4, "Direct", "RoundRobin")>>,
     <<CacheConfig("L1", 8, 4, "Direct", "LeastFrequentlyUsed"),
       CacheConfig("L2", 16, 4, "TwoWay", "LeastRecentlyUsed")>>,
     <<CacheConfig("L1", 4, 4, "Full", "LeastRecentlyUsed"),
       CacheConfig("L2", 8, 4, "TwoWay", "RoundRobin")>>}

SpecOneLine == InitWith(OneLineConfigs) /\ [][Next]_vars

-----------------------------------------------------------------------------
(* A trace streamed to simulate one record per call, as a caller that      *)
(* reads the trace in chunks does, for the access sequences of single      *)
(* lines in one set.                                                       *)

\* records of one streamed trace
ScenarioRecords == 5

Streamed(records) ==
    IF pc = "idle" /\ Len(consumed) \div LINE_SIZE < ScenarioRecords
    THEN records
    ELSE {}

\* a fully associative LRU level of two 8-byte lines
LRUConfigs == {<<CacheConfig("L1", 16, 8, "Full", "LeastRecentlyUsed")>>}

\* one byte in each of the lines 0x00, 0x08 and 0x10
LRURecords == {Record(U64(0), 1), Record(U64(8), 1), Record(U64(16), 1)}

NextLRU ==
    \/ \E b \in Streamed(LRURecords) : Simulate(b)
    \/ Loop
    \/ Return
    \/ For

SpecLRU == InitWith(LRUConfigs) /\ [][NextLRU]_vars

\* round-robin levels of 8-byte lines: two sets of two ways, one set of three
RRConfigs ==
    {<<CacheConfig("L1", 32, 8, "TwoWay", "RoundRobin")>>,
     <<CacheConfig("L1", 24, 8, "Full", "RoundRobin")>>}

\* one byte in each of the lines 0x08, 0x18, 0x28, 0x38 and 0x48: the lines
\* of set 1 of the two-set level, the first of them with tag 0
RRRecords ==
    {Record(U64(8), 1), Record(U64(24), 1), Record(U64(40), 1), Record(U64(56), 1),
     Record(U64(72), 1)}

NextRR ==
    \/ \E b \in Streamed(RRRecords) : Simulate(b)
    \/ Loop
    \/ Return
    \/ For

SpecRR == InitWith(RRConfigs) /\ [][NextRR]_vars

-----------------------------------------------------------------------------
(* What the ghost variables say about the run so far.                      *)

\* the calls of read_and_update_line made on level k
Invocations(k) == {h \in 1 .. Len(history) : history[h].level = k}

Total(k) == result.caches[k].hits + result.caches[k].misses

\* record rec of the trace given so far, and its two fields
RecordBytes(rec) == SubSeq(consumed, LINE_SIZE * (rec - 1) + 1, LINE_SIZE * rec)
RecordAddress(rec) == parse_address(Slice(RecordBytes(rec), ADDRESS_OFFSET, ADDRESS_UPPER))
RecordSize(rec) == parse_size(Slice(RecordBytes(rec), SIZE, LINE_SIZE - 1))

\* the lines of level 1 that hold a byte of [address, address + size)
LinesIntersecting(rec) ==
    Cardinality({BitAnd(Add(RecordAddress(rec), U64(j)).sum, GetAlignmentBitMask(caches[1])) :
                    j \in 0 .. RecordSize(rec) - 1})

\* size >= 1 and address + size <= 2^64 - 1
InDomain(rec) ==
    /\ RecordSize(rec) >= 1
    /\ Add(RecordAddress(rec), U64(RecordSize(rec))).carry = 0

\* the call was refused by simulate's assert_eq on the buffer length
Refused == pc = "panicked" /\ Len(bytes) % LINE_SIZE # 0

\* read has returned for record rec
Finished(rec) ==
    IF Refused THEN rec <= Len(consumed) \div LINE_SIZE ELSE rec < CurrentRecord

\* a fresh Simulator of configuration cfg after one simulate of the whole trace
Fresh(cfg) == SimulateCall(SimulatorNew(cfg), consumed, debug_assertions)

\* the cells of the set addressed by input in cache c, and whether one holds
\* input's tag
SetCells(c, input) ==
    LET set == AsNat(Shr(BitAnd(input, c.set_selection_bit_mask), c.cache_alignment_bits))
    IN  (set * c.set_size) .. (set * c.set_size + c.set_size - 1)

TagOf(c, input) == BitAnd(input, c.tag_selection_bit_mask)

Resident(c, input) == \E x \in SetCells(c, input) : c.cache[x + 1] = TagOf(c, input)

-----------------------------------------------------------------------------
(* Counters.                                                               *)

\* C1: for every level, hits is the number of read_and_update_line calls on
\* that level that returned true and misses the number that returned false,
\* so hits + misses is the number of calls on the level.
C1_CountersCountInvocations ==
    \A k \in 1 .. Len(caches) :
        /\ result.caches[k].hits = Cardinality({h \in Invocations(k) : history[h].hit})
        /\ result.caches[k].misses = Cardinality({h \in Invocations(k) : ~history[h].hit})
        /\ Total(k) = Cardinality(Invocations(k))

C1_Witness ==
    \E k \in 1 .. Len(caches) :
        /\ result.caches[k].hits >= 1
        /\ result.caches[k].misses >= 2
        /\ calls = 2

\* C2: a deeper level never has more lookups than the level above it.
C2_DeeperLevelsSeeNoMore ==
    \A k \in 2 .. Len(caches) : Total(k) <= Total(k - 1)

C2_Witness ==
    /\ Len(caches) = 2
    /\ Total(2) >= 1
    /\ Total(2) < Total(1)

\* C3: whenever simulate has returned, main_memory_accesses is the misses
\* counter of the last level.
C3_MainMemoryIsLastMisses ==
    pc = "idle" =>
        result.main_memory_accesses = result.caches[Len(result.caches)].misses

C3_Witness ==
    /\ pc = "idle"
    /\ returned = 2
    /\ result.main_memory_accesses >= 2
    /\ Len(bytes) > 0
    /\ Len(bytes) < Len(consumed)

\* C4: after any sequence of simulate calls the caches and the result are
\* those of a fresh Simulator after one simulate of the concatenated buffers,
\* and a simulate of the empty buffer leaves them as they were.
C4_SimulateIsCumulative ==
    (pc = "idle" \/ (pc = "loop" /\ bytes = <<>>)) =>
        LET fresh == Fresh(config)
        IN  result = fresh.result /\ caches = fresh.caches

C4_Witness ==
    /\ pc = "idle"
    /\ returned = 2
    /\ Len(bytes) >= LINE_SIZE
    /\ Len(consumed) - Len(bytes) >= LINE_SIZE
    /\ \E k \in 1 .. Len(caches) : result.caches[k].hits >= 1

\* the configuration with the policy of level k replaced
WithPolicy(cfg, k, policy) == [cfg EXCEPT ![k].replacement_policy = policy]

\* C5: a level with as many sets as lines holds the NoPolicy variant, and the
\* result of every trace is the same whichever of the three policies the
\* level is configured with.
C5_OneLineSetsIgnorePolicy ==
    \A k \in 1 .. Len(config) :
        ConfigNumSets(config[k]) = ConfigNumLines(config[k]) =>
            /\ caches[k].replacement_policy = NoPolicyDefault
            /\ pc = "idle" =>
                   \A policy \in {"RoundRobin", "LeastRecentlyUsed", "LeastFrequentlyUsed"} :
                       Fresh(WithPolicy(config, k, policy)).result = result

C5_Witness ==
    /\ pc = "idle"
    /\ returned >= 1
    /\ \E k \in 1 .. Len(config) :
           /\ ConfigNumSets(config[k]) = ConfigNumLines(config[k])
           /\ config[k].kind = "Full"
           /\ result.caches[k].misses >= 2
           /\ result.caches[k].hits >= 1

-----------------------------------------------------------------------------
(* The split of a record into line-aligned lookups.                        *)

\* read aborted on an arithmetic overflow while it worked on record rec
PanickedInRead(rec) == pc = "panicked" /\ ~Refused /\ CurrentRecord = rec

\* C6: every record with size >= 1 and address + size <= 2^64 - 1 is
\* dispatched to level 1 once for each level-1 line that holds one of its
\* bytes: never more, and exactly that often once read has returned, which
\* it does.
C6_OneLookupPerLine ==
    \A rec \in 1 .. Len(consumed) \div LINE_SIZE :
        InDomain(rec) =>
            /\ SubAccesses(rec) <= LinesIntersecting(rec)
            /\ Finished(rec) => SubAccesses(rec) = LinesIntersecting(rec)
            /\ ~PanickedInRead(rec)

\* a byte of the last line of the address space has been looked up, and read
\* has either aborted or gone on to a second line
C6_Witness ==
    \E rec \in 1 .. Len(consumed) \div LINE_SIZE :
        /\ RecordAddress(rec) = TopAddress
        /\ RecordSize(rec) = 1
        /\ LinesIntersecting(rec) = 1
        /\ SubAccesses(rec) >= 1
        /\ PanickedInRead(rec) \/ SubAccesses(rec) >= 2

-----------------------------------------------------------------------------
(* One lookup.                                                             *)

\* C7: a lookup returns true exactly when a cell of the addressed set holds
\* the tag; then the tag array is unchanged and the policy is told of the
\* first such cell; otherwise the cell get_new_line returns, and no other,
\* takes the tag.
C7_LookupHitsOrInstalls ==
    last.level > 0 =>
        LET c == last.before
            tag == TagOf(c, last.input)
            cells == SetCells(c, last.input)
            matching == {x \in cells : c.cache[x + 1] = tag}
            new == GetNewLine(c.replacement_policy, CHOOSE x \in cells : \A y \in cells : x <= y,
                              AsNat(Shr(BitAnd(last.input, c.set_selection_bit_mask),
                                        c.cache_alignment_bits)),
                              c.set_size)
        IN  /\ last.hit <=> matching # {}
            /\ last.hit =>
                   /\ last.after.cache = c.cache
                   /\ last.line \in matching
                   /\ \A x \in matching : last.line <= x
                   /\ last.after.replacement_policy =
                          UpdateOnRead(c.replacement_policy, last.line)
            /\ ~last.hit =>
                   /\ last.line = new.line
                   /\ last.line \in cells
                   /\ last.after.replacement_policy = new.policy
                   /\ last.after.cache = [c.cache EXCEPT ![new.line + 1] = tag]
            /\ [last.after EXCEPT !.cache = c.cache,
                                  !.replacement_policy = c.replacement_policy] = c

\* a miss has replaced a tag that a lookup installed
C7_Witness ==
    /\ last.level > 0
    /\ ~last.hit
    /\ last.before.cache[last.line + 1] # U64Zero
    /\ last.before.set_size = 2
    /\ \E h \in 1 .. Len(history) : history[h].level = last.level /\ history[h].hit

\* C8: the lookup just made, made again at once, returns true; and a record
\* that repeats the record before it and lies in one level-1 line has one
\* lookup, a hit on level 1 (said of the record read is working on and of
\* the one it has just finished).
C8_WarmHit ==
    /\ last.level > 0 => ReadAndUpdateLine(last.after, last.input).hit
    /\ \A rec \in {CurrentRecord - 1, CurrentRecord} :
           (/\ ~Refused
            /\ rec >= 2
            /\ rec <= Len(consumed) \div LINE_SIZE
            /\ RecordBytes(rec) = RecordBytes(rec - 1)
            /\ LinesIntersecting(rec) = 1) =>
               LET lookups == {h \in 1 .. Len(history) : history[h].rec = rec}
               IN  /\ \A h \in lookups : history[h].level = 1 /\ history[h].hit
                   /\ Cardinality(lookups) <= 1
                   /\ Finished(rec) => Cardinality(lookups) = 1

\* a record that missed both levels is repeated and hits level 1
C8_Witness ==
    /\ Len(caches) = 2
    /\ \E h \in 2 .. Len(history) :
           /\ history[h].rec >= 2
           /\ RecordBytes(history[h].rec) = RecordBytes(history[h].rec - 1)
           /\ history[h].hit
           /\ history[h].level = 1
           /\ history[h - 1].rec = history[h].rec - 1
           /\ history[h - 1].level = 2
           /\ ~history[h - 1].hit

-----------------------------------------------------------------------------
(* Victim selection, on the streamed traces.                               *)

\* the first n lookups were of these addresses, in this order
Accessed(addresses) ==
    /\ Len(history) >= Len(addresses)
    /\ \A h \in 1 .. Len(addresses) : history[h].input = U64(addresses[h])

\* what the first n lookups returned
Outcomes(n) == [h \in 1 .. n |-> history[h].hit]

\* the fourth lookup took the cell of 0x08 and left the cell 0x00 had hit
EvictsLineOf0x08 ==
    /\ history[4].line = history[2].line
    /\ history[4].line # history[3].line
    /\ Len(history) = 4 =>
           /\ last.before.cache[last.line + 1] = U64(8)
           /\ last.after.cache[last.line + 1] = U64(16)
           /\ last.after.cache[history[3].line + 1] = last.before.cache[history[3].line + 1]

\* C9 as the specification states it: 0x00, 0x08, 0x00, 0x10 on the fresh
\* two-line LRU level are miss, miss, hit, miss, and the fourth evicts the
\* line of 0x08.
C9_MissMissHitMiss ==
    Accessed(<<0, 8, 0, 16>>) =>
        /\ Outcomes(4) = <<FALSE, FALSE, TRUE, FALSE>>
        /\ EvictsLineOf0x08

\* C9: 0x00, 0x08, 0x00, 0x10 on the fresh two-line LRU level are hit, miss,
\* hit, miss (the tag of 0x00 is the 0 of a cell never written), and the
\* fourth evicts the line of 0x08, not the cell that 0x00 last hit.
C9_HitMissHitMiss ==
    Accessed(<<0, 8, 0, 16>>) =>
        /\ Outcomes(4) = <<TRUE, FALSE, TRUE, FALSE>>
        /\ EvictsLineOf0x08

C9_Witness ==
    /\ Accessed(<<0, 8, 0, 16>>)
    /\ Len(history) = 4
    /\ result.caches[1].hits = 2
    /\ result.caches[1].misses = 2

\* the first n lookups were of n different lines
Distinct(n) ==
    /\ Len(history) >= n
    /\ \A g, h \in 1 .. n : g # h => history[g].input # history[h].input

TwoWay == config[1].kind = "TwoWay"

\* the latest lookup has ended the residence of the line of the first lookup
EvictsFirst ==
    /\ Resident(last.before, history[1].input)
    /\ ~Resident(last.after, history[1].input)

SetOf(h) ==
    AsNat(Shr(BitAnd(history[h].input, caches[1].set_selection_bit_mask),
              caches[1].cache_alignment_bits))

\* the misses in the set of lookup g among the lookups g+1 .. h
LaterMisses(g, h) ==
    Cardinality({f \in (g + 1) .. h : ~history[f].hit /\ SetOf(f) = SetOf(g)})

\* a tag installed by a miss is next overwritten by the w-th later miss in
\* its set, whatever hits come between: said of the latest lookup and every
\* lookup before it
EvictedByTheWthLaterMiss ==
    LET h == Len(history)
    IN  \A g \in 1 .. h - 1 :
            (~history[g].hit /\ ~history[h].hit /\ SetOf(g) = SetOf(h)) =>
                (history[h].line = history[g].line
                    <=> LaterMisses(g, h) % caches[1].set_size = 0)

FifthIsAMiss ==
    (TwoWay /\ Len(history) >= 5 /\ history[5].input = history[1].input /\ Distinct(4)) =>
        ~history[5].hit

-----------------------------------------------------------------------------
(* Two levels.                                                             *)

\* C11: in a sub-access that misses in L1 and hits in L2, the lookup in L1
\* adds one to L1.misses, the lookup in L2 that follows it adds one to
\* L2.hits, and neither changes any other counter nor main_memory_accesses.
C11_MissInL1HitInL2 ==
    [][(pc = "for" /\ Len(caches) >= 2) =>
           LET e == history'[Len(history')]
           IN  /\ (e.pos = 1 /\ ~e.hit) =>
                      /\ e.level = 1
                      /\ result' = [result EXCEPT !.caches[1].misses = @ + 1]
               /\ (e.pos = 2 /\ e.hit) =>
                      /\ e.level = 2
                      /\ history[Len(history)].pos = 1
                      /\ history[Len(history)].rec = e.rec
                      /\ history[Len(history)].input = e.input
                      /\ ~history[Len(history)].hit
                      /\ result' = [result EXCEPT !.caches[2].hits = @ + 1]]_vars

\* the last sub-access missed in L1 and hit in L2
C11_Witness ==
    /\ Len(history) >= 2
    /\ history[Len(history)].pos = 2
    /\ history[Len(history)].hit
    /\ ~history[Len(history) - 1].hit
    /\ result.caches[1].misses >= 2
    /\ result.caches[2].hits = 1


-----------------------------------------------------------------------------
(* The scenarios of one direct-mapped level of 4-byte lines.               *)

\* direct-mapped levels of 4-byte lines: 2, 16 and 64 lines
CrossConfigs ==
    {<<CacheConfig("L1", 8, 4, "Direct", "RoundRobin")>>,
     <<CacheConfig("L1", 64, 4, "Direct", "RoundRobin")>>,
     <<CacheConfig("L1", 256, 4, "Direct", "RoundRobin")>>}

SpecCross == InitWith(CrossConfigs) /\ [][Next]_vars

\* the level has more than the two lines the record touches
Large == config[1].size >= 64

\* the trace so far is the one record at 0x0E of size 4, and read has returned
CrossingRecordRead ==
    /\ consumed = Record(U64(14), 4)
    /\ Finished(1)
    /\ pc # "panicked"

\* C12: on a fresh large direct-mapped level of 4-byte lines, one record at
\* 0x0E of size 4 makes exactly the two sub-accesses 0x0C and 0x10, and both
\* miss: hits = 0 and misses = 2.
C12_CrossingMissesTwice ==
    (Large /\ CrossingRecordRead) =>
        /\ Len(history) = 2
        /\ history[1].input = U64(12)
        /\ history[2].input = U64(16)
        /\ result.caches[1].hits = 0
        /\ result.caches[1].misses = 2

\* the two sub-accesses 0x0C and 0x10 of the record, both counted as hits
C12_Witness ==
    /\ Large
    /\ CrossingRecordRead
    /\ Len(history) = 2
    /\ history[1].input = U64(12)
    /\ history[2].input = U64(16)
    /\ history[1].hit
    /\ history[2].hit
    /\ result.caches[1].hits = 2
    /\ result.caches[1].misses = 0


\* the direct-mapped level of 16 bytes in 4-byte lines
ColdConfigs == {<<CacheConfig("L1", 16, 4, "Direct", "RoundRobin")>>}

\* one byte at each of 0x10, 0x20, 0x30 and 0x40
ColdRecords ==
    {Record(U64(16), 1), Record(U64(32), 1), Record(U64(48), 1), Record(U64(64), 1)}

\* the four records in the order of the trace
ColdTrace ==
    Record(U64(16), 1) \o Record(U64(32), 1) \o Record(U64(48), 1) \o Record(U64(64), 1)

\* the trace in one buffer to a fresh Simulator, or its records one per call
ColdInputs ==
    Streamed(ColdRecords) \cup (IF pc = "idle" /\ calls = 0 THEN {ColdTrace} ELSE {})

NextCold ==
    \/ \E b \in ColdInputs : Simulate(b)
    \/ Loop
    \/ Return
    \/ For

SpecCold == InitWith(ColdConfigs) /\ [][NextCold]_vars

\* C13: on a fresh direct-mapped level of 16 bytes in 4-byte lines, the trace
\* of four size-1 records at 0x10, 0x20, 0x30, 0x40 gives hits = 0,
\* misses = 4 and main_memory_accesses = 4.
C13_ColdDirectMapped ==
    (consumed = ColdTrace /\ pc = "idle") =>
        /\ result.caches[1].hits = 0
        /\ result.caches[1].misses = 4
        /\ result.main_memory_accesses = 4

\* simulate has returned from the trace given in one buffer
C13_Witness ==
    /\ consumed = ColdTrace
    /\ bytes = ColdTrace
    /\ pc = "idle"
    /\ returned = 1
    /\ Len(history) = 4
    /\ result.main_memory_accesses = 4


-----------------------------------------------------------------------------
(* The parsers, on one record given to a fresh Simulator.                  *)

\* a record with the given bytes in its address and size fields
RawRecord(address_field, size_field) ==
    HexField(U64Zero) \o <<32>> \o address_field \o <<32, 82, 32>> \o size_field \o <<10>>

\* 0-9, A-F, a-f
HexChars == (48 .. 57) \cup (65 .. 70) \cup (97 .. 102)

\* bytes that are no hex digit: NUL, space, +, the neighbours / : @ G ` g of
\* the three digit ranges, and two bytes above ASCII
OtherChars == {0, 32, 43, 47, 58, 64, 71, 96, 103, 128, 255}

\* an address field of zeros with the bytes a, b as its pair p (0 the first)
PairAt(p, a, b) ==
    [k \in 1 .. ADDRESS_SIZE |-> IF k = 2 * p + 1 THEN a ELSE IF k = 2 * p + 2 THEN b ELSE 48]

\* DeadBeefCafe0042
MixedField == <<68, 101, 97, 100, 66, 101, 101, 102, 67, 97, 102, 101, 48, 48, 52, 50>>

\* records with every pair of the bytes chars at every place of the address
AddressRecords(chars) ==
    {RawRecord(PairAt(p, a, b), DecField(1)) : p \in 0 .. 7, a \in chars, b \in chars}

\* records with every size field of the bytes chars
SizeRecords(chars) ==
    {RawRecord(HexField(U64(18)), <<d0, d1, d2>>) : d0 \in chars, d1 \in chars, d2 \in chars}

ParseConfigs == {<<CacheConfig("L1", 16, 4, "Direct", "RoundRobin")>>}

\* one record to a fresh Simulator: every pair of hex digits at every place
\* of the address, every size of three digits, a mixed-case address, and
\* address pairs and sizes with bytes that are no digits
ParseInputs ==
    IF pc = "idle" /\ calls = 0
    THEN AddressRecords(HexChars) \cup SizeRecords(48 .. 57)
             \cup {RawRecord(MixedField, DecField(987))}
             \cup AddressRecords(OtherChars \cup {48, 70})
             \cup SizeRecords({0, 32, 43, 47, 48, 57, 58, 255})
    ELSE {}

NextParse ==
    \/ \E b \in ParseInputs : Simulate(b)
    \/ Loop
    \/ Return
    \/ For

SpecParse == InitWith(ParseConfigs) /\ [][NextParse]_vars

\* the two fields of the record given
AddressField == Slice(bytes, ADDRESS_OFFSET, ADDRESS_UPPER)
SizeField == Slice(bytes, SIZE, LINE_SIZE - 1)

IsDigit(c) == c \in 48 .. 57

\* the value of a hex digit and of four of them, the first the most significant
DigitValue(c) == IF c <= 57 THEN c - 48 ELSE IF c <= 70 THEN c - 55 ELSE c - 87

FourDigits(buf, k) ==
    4096 * DigitValue(buf[k]) + 256 * DigitValue(buf[k + 1]) + 16 * DigitValue(buf[k + 2])
        + DigitValue(buf[k + 3])

\* the number a field of 16 hex digits is the numeral of
NumeralValue(buf) ==
    <<FourDigits(buf, 13), FourDigits(buf, 9), FourDigits(buf, 5), FourDigits(buf, 1)>>

\* simulate has parsed the record and called read
Parsed == calls = 1 /\ Len(bytes) = LINE_SIZE /\ (pc = "for" \/ i = LINE_SIZE)

\* C14: for a field of 16 hex digits of either case parse_address returns the
\* 64-bit number it is the numeral of, most significant digit first, and for
\* a field of three digits parse_size returns 100*d0 + 10*d1 + d2; both are
\* what the standard library's decoders return for the same text.
C14_ParsersDecode ==
    Parsed =>
        /\ (\A k \in 1 .. ADDRESS_SIZE : AddressField[k] \in HexChars) =>
               /\ address = NumeralValue(AddressField)
               /\ from_str_radix(AddressField) = [ok |-> TRUE, value |-> address]
        /\ (\A k \in 1 .. 3 : IsDigit(SizeField[k])) =>
               /\ size = 100 * (SizeField[1] - 48) + 10 * (SizeField[2] - 48)
                             + (SizeField[3] - 48)
               /\ parse_u16(SizeField) = [ok |-> TRUE, value |-> size]

\* DeadBeefCafe0042 and 987 have been parsed
C14_Witness ==
    /\ Parsed
    /\ AddressField = MixedField
    /\ address = <<66, 51966, 48879, 57005>>
    /\ size = 987


\* simulate has run its loop body on the record given
Acted == calls = 1 /\ Len(bytes) = LINE_SIZE /\ ~(pc = "loop" /\ i = 0)

\* the process aborted inside a parser: before read was called with an
\* address and a size
ParsePanicked ==
    /\ pc = "panicked"
    /\ Len(bytes) = LINE_SIZE
    /\ history = <<>>
    /\ address = U64Zero
    /\ size = 0

\* the texts the standard decoders accept: 16 hex digits, or + and 15 hex
\* digits; three decimal digits
AddressAccepted ==
    /\ AddressField[1] \in HexChars \cup {43}
    /\ \A k \in 2 .. ADDRESS_SIZE : AddressField[k] \in HexChars

SizeAccepted == \A k \in 1 .. 3 : IsDigit(SizeField[k])

-----------------------------------------------------------------------------
(* Errors.                                                                 *)

\* C16: a simulate call with a buffer whose length is no multiple of 40
\* aborts, and it has not read a record by then: the counters, the tag
\* arrays and the policy state are as they were before the call.
C16_RaggedBufferAborts ==
    [][(calls' = calls + 1 /\ Len(bytes') % LINE_SIZE # 0) =>
           /\ pc' = "panicked"
           /\ caches' = caches
           /\ result' = result
           /\ history' = history]_vars

\* a buffer that ends inside a record was refused by a Simulator that had
\* counted lookups before
C16_Witness ==
    /\ Refused
    /\ calls = 2
    /\ Len(history) >= 2
    /\ result.caches[1].misses >= 1


\* configurations a validating constructor would refuse: no level; a size
\* that is no power of two; a line_size that is no power of two; a size that
\* is no multiple of line_size times the two ways
InvalidConfigs ==
    {<<>>,
     <<CacheConfig("L1", 24, 8, "Full", "RoundRobin")>>,
     <<CacheConfig("L1", 24, 12, "Direct", "RoundRobin")>>,
     <<CacheConfig("L1", 8, 8, "Direct", "RoundRobin"),
       CacheConfig("L2", 24, 8, "TwoWay", "LeastRecentlyUsed")>>}

SpecInvalid == InitWith(InvalidConfigs) /\ [][Next]_vars

IsPowerOfTwo(n) == \E e \in 0 .. 16 : n = 2 ^ e

\* the ways of a level as configured
Ways(cc) ==
    CASE cc.kind = "Direct" -> 1
      [] cc.kind = "Full" -> ConfigNumLines(cc)
      [] cc.kind = "TwoWay" -> 2
      [] cc.kind = "FourWay" -> 4
      [] cc.kind = "EightWay" -> 8

Invalid(cfg) ==
    \/ cfg = <<>>
    \/ \E k \in 1 .. Len(cfg) :
           \/ ~IsPowerOfTwo(cfg[k].size)
           \/ ~IsPowerOfTwo(cfg[k].line_size)
           \/ cfg[k].size % (cfg[k].line_size * Ways(cfg[k])) # 0

\* C17: constructing a Simulator from an empty level list, from a level
\* whose size or line_size is no power of two, or from a level whose size is
\* no multiple of line_size times its ways reports an error and yields no
\* usable Simulator: no simulate call on it looks up a line or returns.
C17_InvalidConfigurationIsRefused ==
    Invalid(config) => (history = <<>> /\ returned = 0)

\* a Simulator of a level of 24 bytes has returned from simulate with hits
\* and misses counted
C17_Witness ==
    /\ Invalid(config)
    /\ Len(config) = 1
    /\ config[1].size = 24
    /\ returned >= 1
    /\ pc = "idle"
    /\ result.caches[1].misses >= 1
    /\ result.main_memory_accesses >= 1


-----------------------------------------------------------------------------
(* The bytes of a record that simulate does not read.                      *)

\* a record with the given instruction pointer field, separator, mode byte
\* and last byte around the address a and the size n
RecordAround(ip, sep, a, rw, n, end) ==
    ip \o <<sep>> \o HexField(a) \o <<sep, rw, sep>> \o DecField(n) \o <<end>>

\* 00007ffe1234abcd
OtherPointer == <<48, 48, 48, 48, 55, 102, 102, 101, 49, 50, 51, 52, 97, 98, 99, 100>>

\* the records at 0x12 with size 1 and at 0x0E with size 4, as the trace
\* format writes a read, as a write from another instruction, with tabs and
\* a carriage return, and with bytes that are no text around the two fields
IgnoredRecords ==
    UNION {{Record(a[1], a[2]),
            RecordAround(OtherPointer, 32, a[1], 87, a[2], 10),
            RecordAround(HexField(U64Zero), 9, a[1], 82, a[2], 13),
            RecordAround([k \in 1 .. ADDRESS_SIZE |-> 255], 0, a[1], 0, a[2], 0)} :
               a \in {<<U64(18), 1>>, <<U64(14), 4>>}}

IgnoredConfigs ==
    {<<CacheConfig("L1", 8, 4, "Direct", "LeastFrequentlyUsed"),
       CacheConfig("L2", 16, 4, "TwoWay", "LeastRecentlyUsed")>>}

\* the trace one record per call, within the budget of records
IgnoredInputs == IF pc = "idle" /\ Budget > 0 THEN IgnoredRecords ELSE {}

NextIgnored ==
    \/ \E b \in IgnoredInputs : Simulate(b)
    \/ Loop
    \/ Return
    \/ For

SpecIgnored == InitWith(IgnoredConfigs) /\ [][NextIgnored]_vars

\* the buffer with the same address and size fields in every record and the
\* bytes of Record everywhere else
RECURSIVE SameFields(_)
SameFields(buf) ==
    IF buf = <<>> THEN <<>>
    ELSE HexField(U64Zero) \o <<32>> \o Slice(buf, ADDRESS_OFFSET, ADDRESS_UPPER)
             \o <<32, 82, 32>> \o Slice(buf, SIZE, LINE_SIZE - 1) \o <<10>>
             \o SameFields(SubSeq(buf, LINE_SIZE + 1, Len(buf)))

\* C18: the counters and the cache state after simulate depend only on the
\* address bytes 17..32 and the size bytes 36..38 of each record: a trace
\* that differs in the instruction pointer, the mode byte, the separators
\* or the last byte of its records leaves the same result and the same
\* caches.
C18_OnlyAddressAndSizeAreRead ==
    pc = "idle" =>
        LET same == SimulateCall(SimulatorNew(config), SameFields(consumed),
                                 debug_assertions)
        IN  /\ same.pc = "idle"
            /\ result = same.result
            /\ caches = same.caches

\* a trace of a write, a record with tabs and one with bytes that are no
\* text has been simulated with a hit
C18_Witness ==
    /\ pc = "idle"
    /\ Len(consumed) = 3 * LINE_SIZE
    /\ consumed[RW_MODE + 1] = 87
    /\ consumed[LINE_SIZE + RW_MODE + 1] = 82
    /\ consumed[LINE_SIZE + LINE_SIZE] = 13
    /\ consumed[2 * LINE_SIZE + 1] = 255
    /\ consumed # SameFields(consumed)
    /\ result.caches[1].hits >= 1
    /\ result.caches[2].misses >= 1


-----------------------------------------------------------------------------
(* The order of the lookups.                                               *)

\* the lookups that began the sub-accesses of the record of lookup h before h
EarlierSubAccesses(h) ==
    {g \in 1 .. h - 1 : history[g].rec = history[h].rec /\ history[g].pos = 1}

\* lookup h is of a record no earlier in the buffers than lookup h - 1
InBufferOrder(h) == h >= 2 => history[h - 1].rec <= history[h].rec

\* lookup h begins a sub-access at a higher address than the sub-accesses of
\* its record before it
Ascending(h) ==
    history[h].pos = 1 =>
        \A g \in EarlierSubAccesses(h) : Lt(history[g].input, history[h].input)

\* lookup h is at the level of its place in the sub-access, right after a
\* miss of the same line at the level before
OutermostFirst(h) ==
    /\ history[h].level = history[h].pos
    /\ history[h].pos > 1 =>
           /\ history[h - 1].rec = history[h].rec
           /\ history[h - 1].input = history[h].input
           /\ history[h - 1].level = history[h].level - 1
           /\ ~history[h - 1].hit

\* C19: the records are processed in buffer order, all sub-accesses of one
\* before any of the next; the sub-accesses of one record are dispatched in
\* ascending address order; and in a sub-access a level is consulted only
\* after every level before it was consulted and missed.
C19_LookupsInOrder ==
    \A h \in 1 .. Len(history) :
        /\ InBufferOrder(h)
        /\ Ascending(h)
        /\ OutermostFirst(h)

\* the sub-access of the last line of the address space is followed by one
\* of the same record at address 0
C19_Witness ==
    /\ Len(history) >= 2
    /\ ~debug_assertions
    /\ RecordAddress(history[Len(history)].rec) = TopAddress
    /\ history[Len(history)].pos = 1
    /\ history[Len(history)].input = U64Zero
    /\ \E g \in EarlierSubAccesses(Len(history)) :
           history[g].input = BitAnd(TopAddress, GetAlignmentBitMask(caches[1]))


-----------------------------------------------------------------------------
(* The masks of a level.                                                   *)

\* levels of power-of-two size and line_size: one set of 1-byte lines (four
\* ways, and one line), eight sets of 1-byte lines, two sets of two 4-byte
\* lines, one 16-byte line, and two levels
MaskConfigs ==
    {<<CacheConfig("L1", 4, 1, "Full", "RoundRobin")>>,
     <<CacheConfig("L1", 1, 1, "Direct", "RoundRobin")>>,
     <<CacheConfig("L1", 8, 1, "Direct", "LeastFrequentlyUsed")>>,
     <<CacheConfig("L1", 16, 4, "TwoWay", "LeastRecentlyUsed")>>,
     <<CacheConfig("L1", 16, 16, "Full", "RoundRobin")>>,
     <<CacheConfig("L1", 8, 4, "Direct", "RoundRobin"),
       CacheConfig("L2", 32, 8, "FourWay", "LeastFrequentlyUsed")>>}

SpecMasks == InitWith(MaskConfigs) /\ [][Next]_vars

\* the construction of the Simulator panicked
ConstructionPanicked == pc = "panicked" /\ calls = 0

\* the set bits, the tag bits and the offset bits of cache c share no bit and
\* are all 64 bits together
MasksPartition(c) ==
    LET set == c.set_selection_bit_mask
        tag == c.tag_selection_bit_mask
        offset == BitNot(c.cache_alignment_bit_mask)
    IN  /\ BitAnd(set, tag) = U64Zero
        /\ BitAnd(set, offset) = U64Zero
        /\ BitAnd(tag, offset) = U64Zero
        /\ BitOr(BitOr(set, tag), offset) = U64Max

\* C20: for every level of power-of-two size and line_size, a single set of
\* 1-byte lines included, the masks are computed without overflow, and the
\* set mask, the tag mask and the complement of the alignment mask are
\* pairwise disjoint and cover all 64 bits.
C20_MasksPartitionTheAddress ==
    /\ ~ConstructionPanicked
    /\ \A k \in 1 .. Len(caches) : MasksPartition(caches[k])

\* a level with one set of 1-byte lines was built with no tag bit, and its
\* first lookup is a hit
C20_Witness ==
    /\ ~debug_assertions
    /\ Len(config) = 1
    /\ config[1].line_size = 1
    /\ ConfigNumSets(config[1]) = 1
    /\ caches[1].tag_selection_bit_mask = U64Zero
    /\ caches[1].set_selection_bit_mask = U64Zero
    /\ caches[1].cache_alignment_bit_mask = U64Max
    /\ Len(history) >= 1
    /\ history[1].hit


-----------------------------------------------------------------------------
(* The split of an address.                                                *)

\* bit k of a u64 and of a natural number
Bit(x, k) == (Limb(x, k \div 16) \div Pow2(k % 16)) % 2

NatBit(n, k) == (n \div Pow2(k)) % 2

\* the sets of cache c
NumSets(c) == Len(c.cache) \div c.set_size

\* st is the split of input by cache c: bit j of the set is bit
\* j + log2(line_size) of input under the set mask, and every bit of the tag
\* is the bit of input at the same place under the tag mask
SplitsAs(c, input, st) ==
    /\ \A j \in 0 .. 15 :
           NatBit(st.set, j) =
               Bit(input, j + TrailingZeros(c.line_size))
                   * Bit(c.set_selection_bit_mask, j + TrailingZeros(c.line_size))
    /\ st.set < Pow2(16)
    /\ \A k \in 0 .. BITS - 1 :
           Bit(st.tag, k) = Bit(input, k) * Bit(c.tag_selection_bit_mask, k)

\* C21: address_to_set_and_tag returns set = (addr & set_mask) >>
\* log2(line_size) and tag = addr & tag_mask, the tag not shifted, whatever
\* the tag array and the policy hold; the set is below the number of sets,
\* so set * set_size + way is an index of the tag array for every way, and
\* the cell a lookup touches is such an index.
C21_SetAndTag ==
    last.level > 0 =>
        LET c == last.before
            st == AddressToSetAndTag(c, last.input)
        IN  /\ SplitsAs(c, last.input, st)
            /\ AddressToSetAndTag(last.after, last.input) = st
            /\ st.set < NumSets(c)
            /\ \A way \in 0 .. c.set_size - 1 :
                   st.set * c.set_size + way \in 0 .. Len(c.cache) - 1
            /\ last.line \in st.set * c.set_size .. st.set * c.set_size + c.set_size - 1
            /\ ~last.hit => last.after.cache[last.line + 1] = st.tag

\* a miss of the last line of the address space in the last of several sets
\* has installed the tag in its place
C21_Witness ==
    /\ last.level > 0
    /\ ~last.hit
    /\ BitAnd(last.input, BitNot(U64(255))) = BitNot(U64(255))
    /\ NumSets(last.before) >= 2
    /\ AddressToSetAndTag(last.before, last.input).set = NumSets(last.before) - 1
    /\ Bit(last.after.cache[last.line + 1], 63) = 1
    /\ Bit(last.after.cache[last.line + 1], 0) = 0


-----------------------------------------------------------------------------
(* The replacement policies on a level of two sets of two 8-byte lines,    *)
(* LFU also on one set of three, and a direct-mapped level of four lines, *)
(* which gets NoPolicy, with a trace streamed one record per call.         *)

PolicyConfigs ==
    {<<CacheConfig("L1", 32, 8, "TwoWay", "RoundRobin")>>,
     <<CacheConfig("L1", 32, 8, "TwoWay", "LeastRecentlyUsed")>>,
     <<CacheConfig("L1", 32, 8, "TwoWay", "LeastFrequentlyUsed")>>,
     <<CacheConfig("L1", 24, 8, "Full", "LeastFrequentlyUsed")>>,
     <<CacheConfig("L1", 32, 8, "Direct", "LeastRecentlyUsed")>>}

\* one byte in each of the lines 0x10, 0x20 and 0x30 of set 0 and in the line
\* 0x18 of set 1
PolicyRecords ==
    {Record(U64(16), 1), Record(U64(32), 1), Record(U64(48), 1), Record(U64(24), 1)}

NextPolicies ==
    \/ \E b \in Streamed(PolicyRecords) : Simulate(b)
    \/ Loop
    \/ Return
    \/ For

SpecPolicies == InitWith(PolicyConfigs) /\ [][NextPolicies]_vars

\* the last lookup was made on a level whose policy is of this kind
LastOn(kind) == last.level > 0 /\ last.before.replacement_policy.kind = kind

\* the set the last lookup addressed, and the index of its first line
LastSet == AddressToSetAndTag(last.before, last.input).set

LastBase == LastSet * last.before.set_size

\* C22: on a round-robin level a miss returns the set's first line plus the
\* set's counter and then advances that counter by one modulo the number of
\* ways; the counters of the other sets are unchanged by a miss, a hit
\* changes no counter, and every counter is always in 0 .. ways - 1.
C22_RoundRobinCounters ==
    /\ \A k \in 1 .. Len(caches) :
           caches[k].replacement_policy.kind = "RoundRobin" =>
               \A s \in DOMAIN caches[k].replacement_policy.set_indices :
                   caches[k].replacement_policy.set_indices[s] \in
                       0 .. caches[k].set_size - 1
    /\ LastOn("RoundRobin") =>
           LET p == last.before.replacement_policy.set_indices
               q == last.after.replacement_policy.set_indices
           IN  IF last.hit
               THEN q = p
               ELSE /\ last.line = LastBase + p[LastSet + 1]
                    /\ q[LastSet + 1] = (p[LastSet + 1] + 1) % last.before.set_size
                    /\ DOMAIN q = DOMAIN p
                    /\ \A s \in DOMAIN p : s # LastSet + 1 => q[s] = p[s]

\* a miss in set 0 wraps its counter from the last way to 0 while the counter
\* of set 1 stays at 1
C22_Witness ==
    /\ LastOn("RoundRobin")
    /\ ~last.hit
    /\ LastSet = 0
    /\ last.before.replacement_policy.set_indices = <<1, 1>>
    /\ last.after.replacement_policy.set_indices = <<0, 1>>


\* C23: every read_and_update_line on an LRU level, hit or miss, writes the
\* clock to the last_used entry of the line it touched or chose as victim and
\* increases the clock by exactly one, so the clock never decreases; the
\* clock equals the number of lookups made on the level, and once the level
\* has been accessed every last_used entry is strictly below the clock.
C23_LruClock ==
    /\ \A k \in 1 .. Len(caches) :
           caches[k].replacement_policy.kind = "LeastRecentlyUsed" =>
               LET p == caches[k].replacement_policy
               IN  /\ p.time = Cardinality(Invocations(k))
                   /\ p.time > 0 =>
                          \A x \in DOMAIN p.last_used_times : p.last_used_times[x] < p.time
    /\ LastOn("LeastRecentlyUsed") =>
           LET p == last.before.replacement_policy
               q == last.after.replacement_policy
           IN  /\ q.time = p.time + 1
               /\ q.last_used_times =
                      [p.last_used_times EXCEPT ![last.line + 1] = p.time]

\* the fourth lookup hits and records clock 3; the fifth, at clock 4, misses
\* and records 4 for its victim, another line
C23_Witness ==
    /\ LastOn("LeastRecentlyUsed")
    /\ ~last.hit
    /\ last.before.replacement_policy.time = 4
    /\ Len(history) = 5
    /\ history[4].hit
    /\ \E x \in DOMAIN last.before.replacement_policy.last_used_times :
           /\ last.before.replacement_policy.last_used_times[x] = 3
           /\ x # last.line + 1
    /\ last.after.replacement_policy.last_used_times[last.line + 1] = 4


\* the earlier lookups on the level of the last lookup that touched line w
Touches(w) ==
    {h \in 1 .. Len(history) - 1 :
        history[h].level = last.level /\ history[h].line = w}

NeverAccessed(w) == Touches(w) = {}

MostRecent(w) == CHOOSE h \in Touches(w) : \A g \in Touches(w) : g <= h

\* C24: on every miss at an LRU level the victim is a way of the addressed
\* set that has never been accessed when there is one, otherwise the way
\* whose most recent access is earlier than that of every other way; so no
\* line is evicted while its set still has a never-used way.
C24_LruEvictsOldest ==
    LastOn("LeastRecentlyUsed") /\ ~last.hit =>
        LET ways == LastBase .. (LastBase + last.before.set_size - 1)
        IN  /\ last.line \in ways
            /\ IF \E w \in ways : NeverAccessed(w)
               THEN NeverAccessed(last.line)
               ELSE \A w \in ways \ {last.line} :
                        MostRecent(last.line) < MostRecent(w)

\* the second lookup of the level misses in the set of the first and takes
\* the way the first lookup filled at clock 0, while the other way of the set
\* has never been used
C24_Witness ==
    /\ LastOn("LeastRecentlyUsed")
    /\ ~last.hit
    /\ Len(history) = 2
    /\ history[1].line = last.line
    /\ last.before.cache[last.line + 1] # U64Zero
    /\ last.before.replacement_policy.last_used_times[last.line + 1] = 0
    /\ \E w \in LastBase .. (LastBase + last.before.set_size - 1) :
           /\ NeverAccessed(w)
           /\ last.before.cache[w + 1] = U64Zero


\* C25: on an LFU level a hit on line i increases usages[i] by exactly one
\* and changes no other entry; on a miss the victim is a way of the addressed
\* set whose usage is minimal in the set, and after the miss its usage is
\* exactly 1 and all other entries are unchanged.
C25_LfuCounts ==
    LastOn("LeastFrequentlyUsed") =>
        LET p == last.before.replacement_policy.usages
            q == last.after.replacement_policy.usages
            ways == LastBase .. (LastBase + last.before.set_size - 1)
        IN  IF last.hit
            THEN q = [p EXCEPT ![last.line + 1] = p[last.line + 1] + 1]
            ELSE /\ last.line \in ways
                 /\ \A w \in ways : p[last.line + 1] <= p[w + 1]
                 /\ q = [p EXCEPT ![last.line + 1] = 1]

\* after hits on both lines of set 0 a miss there takes a way whose usage
\* was 2 and leaves it at 1, with the other way at 2 or more
C25_Witness ==
    /\ LastOn("LeastFrequentlyUsed")
    /\ ~last.hit
    /\ \E h \in 1 .. Len(history) - 1 : history[h].hit
    /\ last.before.replacement_policy.usages[last.line + 1] = 2
    /\ last.after.replacement_policy.usages[last.line + 1] = 1
    /\ \E w \in LastBase .. (LastBase + last.before.set_size - 1) :
           w # last.line /\ last.after.replacement_policy.usages[w + 1] >= 2


\* the values a scanning policy compares: last_used_times or usages
Ranks(p) == IF p.kind = "LeastRecentlyUsed" THEN p.last_used_times ELSE p.usages

LastOnScan == LastOn("LeastRecentlyUsed") \/ LastOn("LeastFrequentlyUsed")

\* the ways of the addressed set whose rank was minimal before the last lookup
LastMinimal ==
    LET r == Ranks(last.before.replacement_policy)
        ways == LastBase .. (LastBase + last.before.set_size - 1)
    IN  {w \in ways : \A v \in ways : r[w + 1] <= r[v + 1]}

\* C26: when several ways of the addressed set share the minimal last_used
\* (LRU) or usage (LFU), get_new_line returns the lowest-indexed of them, and
\* the iterator (min_by) revision returns the same line and leaves the same
\* policy state as the loop revision.
C26_TieBreakLowestIndex ==
    LastOnScan /\ ~last.hit =>
        LET p == last.before.replacement_policy
            older == IF p.kind = "LeastRecentlyUsed"
                     THEN OlderLeastRecentlyUsedGetNewLine(p, LastBase, LastSet,
                                                           last.before.set_size)
                     ELSE OlderLeastFrequentlyUsedGetNewLine(p, LastBase, LastSet,
                                                             last.before.set_size)
        IN  /\ last.line \in LastMinimal
            /\ \A w \in LastMinimal : last.line <= w
            /\ older.line = last.line
            /\ older.policy = last.after.replacement_policy

\* a miss in the three-way LFU set while way 0 has been used twice and ways
\* 1 and 2 once each: the victim is way 1
C26_Witness ==
    /\ LastOn("LeastFrequentlyUsed")
    /\ ~last.hit
    /\ last.before.replacement_policy.usages = <<2, 1, 1>>
    /\ LastMinimal = {1, 2}
    /\ last.line = 1


-----------------------------------------------------------------------------
(* Levels whose lines are larger than the lines of the first level.        *)

\* 4-byte lines in L1, 8-byte or 16-byte lines below
SplitConfigs ==
    {<<CacheConfig("L1", 8, 4, "Direct", "RoundRobin"),
       CacheConfig("L2", 32, 8, "TwoWay", "LeastRecentlyUsed")>>,
     <<CacheConfig("L1", 8, 4, "Full", "LeastFrequentlyUsed"),
       CacheConfig("L2", 32, 16, "Full", "RoundRobin")>>,
     <<CacheConfig("L1", 8, 4, "Direct", "RoundRobin"),
       CacheConfig("L2", 16, 8, "Direct", "RoundRobin"),
       CacheConfig("L3", 64, 16, "TwoWay", "LeastRecentlyUsed")>>}

\* eight bytes from 0x12, in the L1 lines 0x10, 0x14 and 0x18, and four bytes
\* from 0x26, in the L1 lines 0x24 and 0x28
SplitRecords == {Record(U64(18), 8), Record(U64(38), 4)}

NextSplit ==
    \/ \E b \in Inputs(SplitRecords) : Simulate(b)
    \/ Loop
    \/ Return
    \/ For

SpecSplit == InitWith(SplitConfigs) /\ [][NextSplit]_vars

\* the first-level lookup of the sub-access before the one that starts at
\* history[h], within the same record; 0 when there is none
PrevStart(h) ==
    LET G == {g \in 1 .. h - 1 : history[g].rec = history[h].rec /\ history[g].pos = 1}
    IN  IF G = {} THEN 0 ELSE CHOOSE g \in G : \A f \in G : f <= g

\* C27: every level is queried with the same address, the record's address
\* aligned down to the line size of level 1 and advanced by that line size
\* from one sub-access to the next; a level is queried only after the level
\* above missed, and when two consecutive sub-accesses of a record both reach
\* a deeper level and fall into one line of that level, the second lookup
\* there hits.
C27_SplitByOutermostLevel ==
    \A h \in 1 .. Len(history) :
        LET e == history[h]
            start == h - e.pos + 1
            g == PrevStart(start)
        IN  /\ e.level = e.pos
            /\ e.pos = 1 =>
                   /\ e.input =
                          IF g = 0
                          THEN BitAnd(RecordAddress(e.rec), GetAlignmentBitMask(caches[1]))
                          ELSE Add(history[g].input, U64(GetLineSize(caches[1]))).sum
                   /\ (~e.hit /\ Len(caches) > 1 /\ h < Len(history)) =>
                          history[h + 1].pos = 2 /\ history[h + 1].rec = e.rec
            /\ e.pos > 1 =>
                   /\ history[h - 1].rec = e.rec
                   /\ history[h - 1].pos = e.pos - 1
                   /\ ~history[h - 1].hit
                   /\ history[h - 1].input = e.input
                   /\ (/\ g > 0
                       /\ g + e.pos - 1 < start
                       /\ history[g + e.pos - 1].pos = e.pos
                       /\ BitAnd(history[g].input, GetAlignmentBitMask(caches[e.level]))
                              = BitAnd(e.input, GetAlignmentBitMask(caches[e.level])))
                      => e.hit

\* the sub-accesses 0x10 and 0x14 of one record both miss L1; L2 is looked up
\* with 0x10, a miss, and then with 0x14, a hit in the line 0x10 brought
EightByteLineWitnessAt(h) ==
    /\ history[h - 3] = [rec |-> history[h].rec, pos |-> 1, level |-> 1,
                         input |-> U64(16), hit |-> FALSE, line |-> history[h - 3].line]
    /\ history[h - 2].pos = 2 /\ history[h - 2].input = U64(16) /\ ~history[h - 2].hit
    /\ history[h - 1].pos = 1 /\ history[h - 1].input = U64(20) /\ ~history[h - 1].hit
    /\ history[h].pos = 2 /\ history[h].input = U64(20) /\ history[h].hit
    /\ history[h].line = history[h - 2].line

C27_Witness ==
    /\ Len(caches) = 2
    /\ GetLineSize(caches[2]) = 8
    /\ \E h \in 4 .. Len(history) : EightByteLineWitnessAt(h)


-----------------------------------------------------------------------------
(* The tag value 0.                                                        *)

\* no lookup recorded in hist was made at address 0
NeverAddressZero(hist) == \A h \in 1 .. Len(hist) : hist[h].input # U64Zero

\* C28: for traces that never access address 0, a tag cell that has left the
\* value 0 never returns to it, so at every level the count
\* get_uninitialised_line_count never increases from one step to the next.
C28_CellsNeverReturnToUninitialised ==
    [][NeverAddressZero(history') =>
           \A k \in 1 .. Len(caches) :
               /\ \A x \in DOMAIN caches[k].cache :
                      caches[k].cache[x] # U64Zero => caches'[k].cache[x] # U64Zero
               /\ GetUninitialisedLineCount(caches'[k])
                      <= GetUninitialisedLineCount(caches[k])]_vars

\* with the lines 0x18 and 0x28 in the two ways of set 1, the lookup of 0x08
\* misses and writes its tag, 0, over a resident line: one more cell counts
\* as uninitialised
C28_Witness ==
    /\ NeverAddressZero(history)
    /\ last.level > 0
    /\ last.input = U64(8)
    /\ ~last.hit
    /\ last.before.cache[last.line + 1] # U64Zero
    /\ last.after.cache[last.line + 1] = U64Zero
    /\ GetUninitialisedLineCount(last.after) = GetUninitialisedLineCount(last.before) + 1


\* lookup g was made on the level of the last lookup, for the same set and
\* tag, and left its line in the cell where the last lookup found it
InstalledBy(g) ==
    /\ history[g].level = last.level
    /\ AddressToSetAndTag(last.before, history[g].input)
           = AddressToSetAndTag(last.before, last.input)
    /\ history[g].line = last.line

\* no miss on that level took the cell since lookup g
KeptSince(g) ==
    \A f \in g + 1 .. Len(history) - 1 :
        history[f].level = last.level => history[f].hit \/ history[f].line # last.line

\* C29: for traces that never access address 0, read_and_update_line returns
\* true only if an earlier lookup at that level addressed the same line (same
\* set and same tag) and the line has not been evicted since; the first
\* lookup of any line of a fresh cache is a miss.
C29_NoHitWithoutInstall ==
    (NeverAddressZero(history) /\ last.level > 0 /\ last.hit) =>
        \E g \in 1 .. Len(history) - 1 : InstalledBy(g) /\ KeptSince(g)

\* the first lookup of a fresh level, at 0x08, is a hit on a cell that was
\* never written
C29_Witness ==
    /\ Len(history) = 1
    /\ last.level = 1
    /\ last.input = U64(8)
    /\ last.hit
    /\ \A x \in DOMAIN last.before.cache : last.before.cache[x] = U64Zero
    /\ result.caches[1].hits = 1


-----------------------------------------------------------------------------
(* Records of size 0.                                                      *)

\* 4-byte lines in the first level
ZeroSizeConfigs ==
    {<<CacheConfig("L1", 16, 4, "TwoWay", "RoundRobin")>>,
     <<CacheConfig("L1", 8, 4, "Direct", "RoundRobin"),
       CacheConfig("L2", 32, 8, "TwoWay", "LeastRecentlyUsed")>>}

\* no bytes at 0x12, inside the line 0x10; no bytes at 0x20, the start of a
\* line; one byte at 0x12
ZeroSizeRecords == {Record(U64(18), 0), Record(U64(32), 0), Record(U64(18), 1)}

NextZeroSize ==
    \/ \E b \in Inputs(ZeroSizeRecords) : Simulate(b)
    \/ Loop
    \/ Return
    \/ For

SpecZeroSize == InitWith(ZeroSizeConfigs) /\ [][NextZeroSize]_vars

\* the records of size 0 read so far
ZeroSized == {rec \in 1 .. Len(consumed) \div LINE_SIZE : RecordSize(rec) = 0}

\* the record's address aligned down to a line of the first level
AlignedDown(rec) == BitAnd(RecordAddress(rec), GetAlignmentBitMask(caches[1]))

\* the lookups made for record rec
LookupsOf(rec) == {h \in 1 .. Len(history) : history[h].rec = rec}

-----------------------------------------------------------------------------
(* The levels a sub-access reaches.                                        *)

\* the sub-access in flight has missed the levels above position k and has
\* not yet looked up position k: read is inside its for loop
InFlightAt(k) == pc = "for" /\ level = k

RECURSIVE SumOfHits(_)
SumOfHits(k) == IF k = 0 THEN 0 ELSE result.caches[k].hits + SumOfHits(k - 1)

\* the sub-accesses dispatched so far
Dispatched == Cardinality({h \in 1 .. Len(history) : history[h].pos = 1})

\* C31: every miss of a level is one lookup of the next: for every level
\* below the first, hits + misses equals the misses of the level above, and
\* the hits of all levels plus the misses of the last level equal the number
\* of sub-accesses, which is hits + misses of the first level; a sub-access
\* is counted as a hit at no more than one level.  Inside read's for loop the
\* sub-access in flight has been counted as a miss above and not yet below.
C31_MissPropagationIsExact ==
    /\ \A k \in 2 .. Len(caches) :
           Total(k) + (IF InFlightAt(k) THEN 1 ELSE 0) = result.caches[k - 1].misses
    /\ Len(caches) > 0 =>
           /\ Total(1) = Dispatched
           /\ SumOfHits(Len(caches)) + result.caches[Len(caches)].misses
                  + (IF pc = "for" /\ level > 1 THEN 1 ELSE 0) = Total(1)
    /\ \A h \in 1 .. Len(history) - 1 : history[h].hit => history[h + 1].pos = 1

\* with three levels, between two sub-accesses: lookups have hit in the
\* first, in the second and in the third level, and some missed all three
C31_Witness ==
    /\ Len(caches) = 3
    /\ pc = "idle"
    /\ \A k \in 1 .. 3 : result.caches[k].hits > 0
    /\ result.caches[3].misses > 0
    /\ Total(3) = result.caches[2].misses
    /\ Total(2) = result.caches[1].misses


\* C32: a sub-access that hits at level i leaves every deeper level
\* unchanged: tag array, replacement-policy state and hits and misses.  The
\* lookup that hits ends the sub-access, and every lookup of the for loop
\* changes the cache and the counters of the level it looks up and of no
\* other level.
C32_HitLeavesDeeperLevelsUnchanged ==
    [][pc = "for" =>
           /\ \A j \in 1 .. Len(caches) :
                  j # level =>
                      /\ caches'[j] = caches[j]
                      /\ result'.caches[j] = result.caches[j]
           /\ ReadAndUpdateLine(caches[level], current_aligned_address).hit =>
                  /\ result'.caches[level].hits = result.caches[level].hits + 1
                  /\ pc' = "for" => level' = 1]_vars

\* a hit in the first of three levels, while the two levels below hold lines
\* and have counted lookups
C32_Witness ==
    /\ Len(caches) = 3
    /\ last.level = 1
    /\ last.hit
    /\ last.before.cache[last.line + 1] # U64Zero
    /\ \A j \in 2 .. 3 :
           /\ Total(j) > 0
           /\ \E x \in DOMAIN caches[j].cache : caches[j].cache[x] # U64Zero


\* the set of cache c that holds cell x of the tag array (Seq index)
SetOfCell(c, x) == (x - 1) \div c.set_size

\* C33: in every state of every level no two cells of one set hold the same
\* non-zero tag: a line is resident in at most one way of its set.
C33_NoDuplicateTagInASet ==
    \A k \in 1 .. Len(caches) :
        \A x, y \in DOMAIN caches[k].cache :
            (/\ x < y
             /\ SetOfCell(caches[k], x) = SetOfCell(caches[k], y)
             /\ caches[k].cache[x] # U64Zero)
                => caches[k].cache[x] # caches[k].cache[y]

\* a line that was brought in, evicted and is brought in again by the last
\* lookup, into a set whose ways all hold lines
C33_Witness ==
    /\ last.level > 0
    /\ ~last.hit
    /\ last.after.set_size > 1
    /\ \E h \in 1 .. Len(history) - 1 :
           history[h].level = last.level /\ history[h].input = last.input /\ ~history[h].hit
    /\ \A x \in DOMAIN last.after.cache :
           SetOfCell(last.after, x) = LastSet => last.after.cache[x] # U64Zero


\* the cells of set number set of cache c, as Vec indices
WaysOf(c, set) == (set * c.set_size) .. (set * c.set_size + c.set_size - 1)

\* C34: for every policy and in every state, get_new_line(set_base, set,
\* ways) returns an index in set_base .. set_base + ways - 1 for every set of
\* the level, an index of the tag array and of the policy's own array; a miss
\* writes the tag into a cell of the addressed set and leaves the cells of
\* every other set as they were.
C34_NewLineIsInTheSet ==
    /\ \A k \in 1 .. Len(caches) :
           \A set \in 0 .. NumSets(caches[k]) - 1 :
               LET c == caches[k]
                   p == c.replacement_policy
                   new == GetNewLine(p, set * c.set_size, set, c.set_size)
               IN  /\ new.line \in WaysOf(c, set)
                   /\ new.line + 1 \in DOMAIN c.cache
                   /\ p.kind = "RoundRobin" => set + 1 \in DOMAIN p.set_indices
                   /\ p.kind = "LeastRecentlyUsed" => new.line + 1 \in DOMAIN p.last_used_times
                   /\ p.kind = "LeastFrequentlyUsed" => new.line + 1 \in DOMAIN p.usages
    /\ (last.level > 0 /\ ~last.hit) =>
           /\ last.line \in WaysOf(last.before, LastSet)
           /\ DOMAIN last.after.cache = DOMAIN last.before.cache
           /\ \A x \in DOMAIN last.before.cache :
                  x # last.line + 1 => last.after.cache[x] = last.before.cache[x]

\* a miss in the last set of a level of several sets of two ways takes a
\* cell of that set while the first set holds a line, which stays
C34_Witness ==
    /\ last.level > 0
    /\ ~last.hit
    /\ NumSets(last.before) > 1
    /\ LastSet = NumSets(last.before) - 1
    /\ last.line >= LastBase
    /\ LastBase > 0
    /\ last.before.set_size > 1
    /\ last.before.cache[1] # U64Zero
    /\ last.after.cache[1] = last.before.cache[1]


-----------------------------------------------------------------------------
(* Levels of one line per set built with each of the policies.             *)

\* direct-mapped levels of four and of two lines, and one line alone
OneWayConfigs ==
    {<<CacheConfig("L1", 16, 4, "Direct", "RoundRobin")>>,
     <<CacheConfig("L1", 8, 4, "Direct", "LeastFrequentlyUsed"),
       CacheConfig("L2", 16, 8, "Direct", "LeastRecentlyUsed")>>,
     <<CacheConfig("L1", 4, 4, "Full", "LeastRecentlyUsed")>>}

\* one byte in each of the lines 0x10 and 0x20, which share a set in every
\* level, and in the line 0x14
OneWayRecords == {Record(U64(16), 1), Record(U64(32), 1), Record(U64(20), 1)}

NextOneWay ==
    \/ \E b \in Streamed(OneWayRecords) : Simulate(b)
    \/ Loop
    \/ Return
    \/ For

SpecOneWay == InitWith(OneWayConfigs) /\ [][NextOneWay]_vars

\* Cache::new(size, line_size, num_lines, policy): a cache of one line per
\* set with the policy given, which config_to_cache never builds
OneWayCache(cc, kind) ==
    LET num_lines == ConfigNumLines(cc)
    IN  CacheNew(cc.size, cc.line_size, num_lines,
                 CASE kind = "NoPolicy" -> NoPolicyDefault
                   [] kind = "RoundRobin" -> RoundRobinNew(num_lines)
                   [] kind = "LeastRecentlyUsed" -> LeastRecentlyUsedNew(num_lines)
                   [] kind = "LeastFrequentlyUsed" -> LeastFrequentlyUsedNew(num_lines))

\* the addresses looked up on level k, in order, among the first h lookups
RECURSIVE LookedUp(_, _)
LookedUp(k, h) ==
    IF h = 0 THEN <<>>
    ELSE IF history[h].level = k
    THEN Append(LookedUp(k, h - 1), history[h].input)
    ELSE LookedUp(k, h - 1)

\* read_and_update_line applied to the addresses in turn: what each call
\* returned, the line it touched, and the tag array at the end
RECURSIVE Replayed(_, _, _)
Replayed(c, inputs, seen) ==
    IF inputs = <<>>
    THEN [calls |-> seen, cache |-> c.cache]
    ELSE LET r == ReadAndUpdateLine(c, Head(inputs))
         IN  Replayed(r.cache, Tail(inputs),
                      Append(seen, [hit |-> r.hit, line |-> r.line]))

\* what the lookups of level k recorded
Recorded(k) ==
    LET RECURSIVE Calls(_)
        Calls(h) ==
            IF h = 0 THEN <<>>
            ELSE IF history[h].level = k
            THEN Append(Calls(h - 1), [hit |-> history[h].hit, line |-> history[h].line])
            ELSE Calls(h - 1)
    IN  [calls |-> Calls(Len(history)), cache |-> caches[k].cache]

\* C35: with one way per set RoundRobin, LRU and LFU are equivalent to
\* NoPolicy: get_new_line returns the first line of the set, so a cache of
\* set_size 1 built with any of them returns the same hit/miss sequence,
\* touches the same cells and holds the same tag array as the NoPolicy cache
\* on every trace.
C35_OneWayPoliciesAreNoPolicy ==
    \A k \in 1 .. Len(caches) :
        LET inputs == LookedUp(k, Len(history))
            plain == Replayed(OneWayCache(config[k], "NoPolicy"), inputs, <<>>)
        IN  /\ plain = Recorded(k)
            /\ \A kind \in {"RoundRobin", "LeastRecentlyUsed", "LeastFrequentlyUsed"} :
                   /\ OneWayCache(config[k], kind).set_size = 1
                   /\ Replayed(OneWayCache(config[k], kind), inputs, <<>>) = plain

\* five lookups of the four-line level: 0x10 missed, was evicted by 0x20 and
\* missed again, then hit
C35_Witness ==
    /\ Len(caches) = 1
    /\ Len(caches[1].cache) = 4
    /\ Len(history) = 5
    /\ history[5].hit
    /\ history[5].input = U64(16)
    /\ \E h \in 2 .. 4 : history[h].input = U64(32) /\ ~history[h].hit
    /\ ~history[1].hit /\ history[1].input = U64(16)
    /\ ~history[4].hit /\ history[4].input = U64(16)


-----------------------------------------------------------------------------
(* The end of the address space.                                           *)

TopConfigs ==
    {<<CacheConfig("L1", 16, 4, "TwoWay", "RoundRobin")>>,
     <<CacheConfig("L1", 8, 4, "Direct", "LeastFrequentlyUsed"),
       CacheConfig("L2", 16, 8, "Full", "LeastRecentlyUsed")>>}

\* one byte at 0x12; one byte at 0xFFFFFFFFFFFFFFFD, in the last line; four
\* bytes from there, for which address + size passes 2^64
TopRecords == {Record(U64(18), 1), Record(TopAddress, 1), Record(TopAddress, 4)}

NextTop ==
    \/ \E b \in Inputs(TopRecords) : Simulate(b)
    \/ Loop
    \/ Return
    \/ For

\* the guards of For, Loop and Return: ENABLED <<For>>_vars and so on, as
\* every step of the three changes pc, i, level or history
ForEnabled == pc = "for" /\ (level = 1 => SubAccesses(CurrentRecord) < MaxSubAccesses)

LoopEnabled == pc = "loop" /\ i < Len(bytes)

ReturnEnabled == pc = "loop" /\ i >= Len(bytes)

\* simulate is sequential code that runs on once called: each of its steps
\* is taken when it is the next one.  Whether simulate is called again is up
\* to the caller.  This is weak fairness of Return, Loop and For; for Loop
\* and For it is written out, WF_vars(A) being []<>~ENABLED <<A>>_vars \/
\* []<><<A>>_vars, where a step that leaves a state with the guard of A is a
\* step of A.
SpecTop ==
    /\ InitWith(TopConfigs)
    /\ [][NextTop]_vars
    /\ WF_vars(Return)
    /\ ([]<>(~LoopEnabled) \/ []<><<LoopEnabled>>_vars)
    /\ ([]<>(~ForEnabled) \/ []<><<ForEnabled>>_vars)

\* the loop test of read for the record in work
LoopTestHolds == Lt(current_aligned_address, Add(address, U64(size)).sum)

\* C36: simulate terminates on every buffer of well-formed records: for
\* every address, the last line of the address space included, the
\* sub-access loop of a record ends (read does not abort and does not loop
\* on), and a record of size >= 1 has been dispatched at least once when it
\* ends.
C36_ReadTerminates ==
    /\ [](\A rec \in 1 .. Len(consumed) \div LINE_SIZE :
              /\ ~PanickedInRead(rec)
              /\ (Finished(rec) /\ RecordSize(rec) >= 1) => SubAccesses(rec) >= 1)
    /\ (pc = "for") ~> (pc \in {"loop", "idle"})

\* in a release build the line 0xFFFFFFFFFFFFFFFC of a one-byte record has
\* been looked up, the aligned address has wrapped to 0 and the loop test
\* holds again: the loop goes on from address 0
C36_Witness ==
    /\ ~debug_assertions
    /\ pc = "for"
    /\ address = TopAddress
    /\ size = 1
    /\ SubAccesses(CurrentRecord) >= 1
    /\ current_aligned_address = U64Zero
    /\ LoopTestHolds


-----------------------------------------------------------------------------
(* The Simulator and its result entries.                                   *)

\* C37: a new Simulator has one cache and one counter entry for each
\* configured level, in the order of the configuration and with the
\* configured names; before the first simulate every hits, every misses and
\* main_memory_accesses are 0 and every tag cell is uninitialised; nothing
\* ever changes the number, the order or the names of the result entries.
C37_OneEntryPerConfiguredLevel ==
    ~ConstructionPanicked =>
        /\ Len(caches) = Len(config)
        /\ Len(result.caches) = Len(config)
        /\ \A k \in 1 .. Len(config) :
               /\ result.caches[k].name = config[k].name
               /\ GetLineSize(caches[k]) = config[k].line_size
               /\ Len(caches[k].cache) = ConfigNumLines(config[k])
        /\ calls = 0 =>
               /\ result.main_memory_accesses = 0
               /\ \A k \in 1 .. Len(config) :
                      /\ result.caches[k].hits = 0
                      /\ result.caches[k].misses = 0
                      /\ GetUninitialisedLineCount(caches[k]) = Len(caches[k].cache)

\* a Simulator of three levels after two calls of simulate that counted hits
\* and misses: the entries are still L1, L2, L3
C37_Witness ==
    /\ Len(config) = 3
    /\ returned = 2
    /\ result.main_memory_accesses > 0
    /\ result.caches[1].hits > 0
    /\ [k \in 1 .. 3 |-> result.caches[k].name] = <<"L1", "L2", "L3">>
    /\ [k \in 1 .. 3 |-> GetLineSize(caches[k])] = <<4, 8, 16>>


-----------------------------------------------------------------------------
(* The generated table against the values of the hex digits.               *)

\* v: the value of the byte b as a hex digit of either case, 0 for any other
ValueOfByte(b) == IF b \in HexChars THEN DigitValue(b) ELSE 0

\* the bytes of pair p of the address field, and the byte of the parsed
\* address that pair gives (pair 0 is the most significant byte)
LeftOf(p) == AddressField[2 * p + 1]
RightOf(p) == AddressField[2 * p + 2]
AddressByte(p) ==
    16 * Nibble(address, ADDRESS_SIZE - 1 - 2 * p) + Nibble(address, ADDRESS_SIZE - 2 - 2 * p)

\* C38: HEX_LOOKUP[l][r] = 16*v(l) + v(r) for every pair of bytes l, r, the
\* pair (255, 255) that the generating loop does not visit included, where v
\* is the value of a hex digit of either case and 0 for every other byte;
\* it is the byte parse_address takes from the pair.
C38_TableIsSixteenTimesLeftPlusRight ==
    /\ HEX_LOOKUP(255, 255) = 16 * ValueOfByte(255) + ValueOfByte(255)
    /\ Parsed =>
           \A p \in 0 .. 7 :
               /\ HEX_LOOKUP(LeftOf(p), RightOf(p))
                      = 16 * ValueOfByte(LeftOf(p)) + ValueOfByte(RightOf(p))
               /\ AddressByte(p) = HEX_LOOKUP(LeftOf(p), RightOf(p))

\* the record with the bytes 255, 255 as the last pair of its address field
\* has been parsed
C38_Witness ==
    /\ Parsed
    /\ LeftOf(7) = 255
    /\ RightOf(7) = 255
    /\ address = U64Zero

=============================================================================
